---- MODULE Spec2Model ----
(***************************************************************************)
(* Model of the tile world and its coordinate config                      *)
(* (game/tile/data.rs), the material registry (game/tile/material.rs),    *)
(* the dynamic collider index (game/tile/collider.rs) and the kinematic   *)
(* resolver (game/tile/kinematic.rs).                                      *)
(*                                                                         *)
(* Actor coordinates are f32 in the source.  They are modelled as exact    *)
(* fixed-point integers, one unit being 0.01 world units, so that          *)
(* KinematicApi::TOLERANCE (0.01) is 1, the broad-phase margin (10.) is    *)
(* 1000 and the tile size used by the game (50.) is 5000.  Rounding of f32 *)
(* arithmetic is outside the model.                                        *)
(***************************************************************************)
EXTENDS Integers, Sequences, FiniteSets, TLC

\* ------------------------------------------------------------------------
\* Program constants
\* ------------------------------------------------------------------------
TOLERANCE == 1

CollisionMargin == 1000

CHUNK_EDGE == 16

CHUNK_AREA == CHUNK_EDGE * CHUNK_EDGE

TileSize == 5000

AIR == 0

\* Option::None for handles (handles are positive integers).
NONE == 0

\* ------------------------------------------------------------------------
\* Bounds of the model
\* ------------------------------------------------------------------------
\* Number of TileChunk objects ever allocated in one behaviour.
MaxChunks == 3

\* Number of TileChunk objects the resolver and the systems that index
\* colliders may bring the arena to: a box at the origin lies in four
\* chunks.
MaxSceneChunks == 4

\* Number of collider entities ever spawned in one behaviour.
MaxColliders == 2

\* Number of materials ever registered in one behaviour of the shape scene.
MaxMaterials == 4

\* Number of register calls in one behaviour of a registry on its own.
MaxRegistrations == 3

\* ------------------------------------------------------------------------
\* Vectors and boxes (game/math/glam.rs, game/math/aabb.rs)
\* ------------------------------------------------------------------------
VAdd(a, b) == <<a[1] + b[1], a[2] + b[2]>>

Abs(x) == IF x < 0 THEN -x ELSE x

Min2(a, b) == IF a < b THEN a ELSE b

Max2(a, b) == IF a > b THEN a ELSE b

\* i32::div_euclid / f32::div_euclid(..).floor() for a positive divisor.
DivEuclid(a, b) == a \div b

\* i32::rem_euclid for a positive divisor.
RemEuclid(a, b) == a % b

Box(x0, y0, x1, y1) == [min |-> <<x0, y0>>, max |-> <<x1, y1>>]

\* TileFace::VARIANTS with TileFace::as_ivec, and TileFace::invert.
FaceVec == << <<-1, 0>>, <<1, 0>>, <<0, -1>>, <<0, 1>> >>

Faces == 1..4

Invert(f) == CASE f = 1 -> 2 [] f = 2 -> 1 [] f = 3 -> 4 [] f = 4 -> 3

\* ------------------------------------------------------------------------
\* TileLayerConfig
\* ------------------------------------------------------------------------
\* The cast of an f32 to i32 saturates.
I32Max == 2147483647

I32Min == -I32Max - 1

AsI32(v) == Max2(I32Min, Min2(I32Max, v))

\* A variant of actor_to_tile_axis that rounds the quotient toward zero.
TileLayerConfig_actor_to_tile_axis_trunc(size, value) ==
    AsI32(IF value < 0 THEN -((-value) \div size) ELSE value \div size)

\* TileLayerConfig::actor_to_tile_axis and tile_to_actor_rect of a config
\* with the given tile size.
TileLayerConfig_actor_to_tile_axis(size, value) == AsI32(DivEuclid(value, size))

TileLayerConfig_actor_to_tile(size, v) ==
    <<TileLayerConfig_actor_to_tile_axis(size, v[1]),
      TileLayerConfig_actor_to_tile_axis(size, v[2])>>

TileLayerConfig_tile_to_actor_rect(size, t) ==
    [min |-> <<t[1] * size, t[2] * size>>,
     max |-> <<t[1] * size + size, t[2] * size + size>>]

\* The same for the config of the game, whose tile size is 50.
actor_to_tile_axis(value) == TileLayerConfig_actor_to_tile_axis(TileSize, value)

actor_to_tile(v) == <<actor_to_tile_axis(v[1]), actor_to_tile_axis(v[2])>>

\* A variant of decompose_world_pos whose quotient and remainder round
\* toward zero, as / and % of i32 do.
decompose_world_pos_trunc(v) ==
    [chunk |-> <<IF v[1] < 0 THEN -((-v[1]) \div CHUNK_EDGE) ELSE v[1] \div CHUNK_EDGE,
                 IF v[2] < 0 THEN -((-v[2]) \div CHUNK_EDGE) ELSE v[2] \div CHUNK_EDGE>>,
     block |-> <<IF v[1] < 0 THEN -((-v[1]) % CHUNK_EDGE) ELSE v[1] % CHUNK_EDGE,
                 IF v[2] < 0 THEN -((-v[2]) % CHUNK_EDGE) ELSE v[2] % CHUNK_EDGE>>]

decompose_world_pos(v) ==
    [chunk |-> <<DivEuclid(v[1], CHUNK_EDGE), DivEuclid(v[2], CHUNK_EDGE)>>,
     block |-> <<RemEuclid(v[1], CHUNK_EDGE), RemEuclid(v[2], CHUNK_EDGE)>>]

to_tile_index_flat(v) == v[2] + v[1]

to_tile_index(v) == v[2] * CHUNK_EDGE + v[1]

actor_to_decomposed(actor) == decompose_world_pos(actor_to_tile(actor))

\* ------------------------------------------------------------------------
\* Bounded inputs
\* ------------------------------------------------------------------------
\* Chunk coordinates handed to chunk_or_create: the origin chunk and one
\* neighbour on each axis.
ChunkCoords == {<<0, 0>>, <<-1, 0>>, <<0, -1>>}

\* Tile coordinates handed to tile / set_tile: neighbours inside one chunk,
\* two tiles whose local coordinates differ only by the row stride, and a
\* tile at negative coordinates (local (15,15) of chunk (-1,-1)).
TilePositions == {<<0, 0>>, <<1, 0>>, <<0, 1>>, <<-1, -1>>}

Materials == {0, 1, 2}

Entities == 1..MaxColliders

\* Collider boxes: the 40 x 40 box of an actor centred on x = 0 (its half
\* extent exceeds the broad-phase margin; chunk (0,0)), a 5 x 5 box in chunk
\* (0,0), and a 5 x 5 box that straddles the chunk border while centred in
\* chunk (-1,0).
ColliderBoxes ==
    {[min |-> <<-2000, 1000>>, max |-> <<2000, 5000>>],
     [min |-> <<100, 1100>>, max |-> <<600, 1600>>],
     [min |-> <<-300, 1100>>, max |-> <<200, 1600>>]}

\* Query boxes: one well inside chunk (-1,0) that overlaps the actor box
\* only, and one in chunk (0,0) that overlaps all three collider boxes.
QueryBoxes ==
    {[min |-> <<-1900, 1200>>, max |-> <<-1500, 1500>>],
     [min |-> <<150, 1200>>, max |-> <<1500, 1500>>]}

\* The removal scene: the two 5 x 5 boxes, whose centres lie in different
\* chunks, and the query box that overlaps both.
RemovalBoxes ==
    {[min |-> <<100, 1100>>, max |-> <<600, 1600>>],
     [min |-> <<-300, 1100>>, max |-> <<200, 1600>>]}

\* The boxes of listening colliders: the two boxes of the removal scene,
\* which overlap each other, and a box in chunk (0, 0) away from both.
ListenBoxes == RemovalBoxes \cup {[min |-> <<3000, 1100>>, max |-> <<3500, 1600>>]}

\* Where the colliders of the unloading scene spawn: inside chunk (0, 0).
UnloadBox == [min |-> <<100, 1100>>, max |-> <<600, 1600>>]

RemovalQueries == {[min |-> <<150, 1200>>, max |-> <<1500, 1500>>]}

\* The scene of the kinematic resolver, in chunk (0,0): a floor of solid
\* tiles whose top is y = 200 and a wall tile whose left face is x = 200;
\* together they form an inside corner at (200, 200).
SceneTiles == {<<2, 4>>, <<3, 4>>, <<4, 3>>}

\* A 20 x 20 crate standing on the floor.
SceneColliders == {[min |-> <<12000, 18000>>, max |-> <<14000, 19999>>]}

\* Movers, all 40 x 40 (sys_update_moving_colliders): resting on the floor
\* at a distance of TOLERANCE and 10 away from the wall; pressed against the
\* wall at a distance of TOLERANCE and 20 above the floor; floating 40 away
\* from both; in exact contact with the floor, its right edge on a tile
\* border.
MoverBoxes ==
    {[min |-> <<15000, 15999>>, max |-> <<19000, 19999>>],
     [min |-> <<15999, 14000>>, max |-> <<19999, 18000>>],
     [min |-> <<12000, 12000>>, max |-> <<16000, 16000>>],
     [min |-> <<11000, 16000>>, max |-> <<15000, 20000>>]}

\* Displacements: diagonal ones of every orientation that matters near the
\* corner, and straight ones longer than any gap.
Displacements ==
    {<<500, 500>>, <<6000, 6000>>, <<-500, 500>>, <<500, -500>>, <<6000, 0>>, <<0, 6000>>}

\* Moves that press a mover against the floor, the wall or both, and the
\* moves that follow: short ones along each axis in both directions and a
\* long one to the left.
Approaches == {<<0, 6000>>, <<6000, 0>>, <<6000, 6000>>}

Slides == {<<500, 0>>, <<-500, 0>>, <<0, 500>>, <<0, -500>>, <<-6000, 0>>}

\* Velocities of the movers whose velocity is clipped: the displacements of
\* the scene and one that carries a mover to the right and up, past the
\* top of the wall tile.
ClipVelocities == Displacements \cup {<<500, -4000>>}

\* The Spatial hierarchy: how many nodes are created, the local transform
\* they are given (a scaling by 2) and the position set_local_pos gives
\* them.
MaxSpatials == 3

LocalTransforms == {<<2, 0>>}

LocalPositions == {1}

\* The scene of the two chunks: colliders spawn at the boxes of the
\* listening scene, around the border of the chunks (-1, 0) and (0, 0);
\* a solid tile may stand at (1, 0); movers left and right of the boxes
\* are moved towards them, and regions over them are probed.
OrderTiles == {<<1, 0>>}

OrderMovers ==
    {[min |-> <<-2000, 1000>>, max |-> <<-500, 1700>>],
     [min |-> <<3800, 1000>>, max |-> <<4800, 1700>>]}

OrderDisplacements == {<<2500, 0>>, <<-5000, 300>>}

OrderRegions == {[min |-> <<150, 1200>>, max |-> <<3200, 1500>>]}

\* Boxes whose clip mask is asked for: the movers, and 40 x 40 boxes that
\* float 2 x TOLERANCE and 3 x TOLERANCE above the floor.
ProbeBoxes ==
    MoverBoxes \cup {[min |-> <<15000, 15998>>, max |-> <<19000, 19998>>],
                     [min |-> <<15000, 15997>>, max |-> <<19000, 19997>>]}

\* Velocities probed: along and against each axis, and at rest.
Velocities == {<<500, 500>>, <<-500, -500>>, <<0, 0>>}

\* Regions scanned: one over the floor tiles and the crate, one over the
\* wall tile, one in the empty chunk (-1, 0).
ScanBoxes ==
    {[min |-> <<11000, 19000>>, max |-> <<19000, 21000>>],
     [min |-> <<19000, 14000>>, max |-> <<21000, 16000>>],
     [min |-> <<-9000, 14000>>, max |-> <<-7000, 16000>>]}

\* The callbacks of the scans break at this accepted collision at the
\* latest, or never.
MaxBreakAfter == 2

\* Tile sizes of the configs converted with (0.01, 0.07, 16. and 50.) and
\* the actor coordinates converted: every coordinate near the origin and
\* the coordinates around the multiples of the larger sizes.
TileSizes == {1, 7, 1600, 5000}

MaxCoord == 15

ActorCoords ==
    (-MaxCoord..MaxCoord)
    \cup {k * m + d : k \in {-2, -1, 1, 2}, m \in {1600, 5000}, d \in {-1, 0, 1}}

\* Tile coordinates decomposed: three chunks on each side of the origin.
MaxTileCoord == 33

TileCoords == (-MaxTileCoord..MaxTileCoord) \X (-MaxTileCoord..MaxTileCoord)

\* Rays stepped: the ray of the scenario, rays along each axis in both
\* directions, a ray of length zero and rays whose length is a whole
\* number because their components are multiples of 3 and 4.
Rays ==
    {<< <<0, 0>>, <<12500, 0>> >>,
     << <<12500, 0>>, <<0, 0>> >>,
     << <<2500, 2500>>, <<2500, 14000>> >>,
     << <<2500, 2500>>, <<2500, -9000>> >>,
     << <<100, 100>>, <<100, 100>> >>,
     << <<1000, 1000>>, <<7000, 9000>> >>,
     << <<1000, 1000>>, <<-5000, -7000>> >>,
     << <<4000, 1000>>, <<7000, 5000>> >>}

\* Origins and steps of single ray steps, in a config whose tile size
\* (0.07) is above every step, so that a step crosses at most one border
\* per axis.
MaxRayCoord == 5

RayTileSize == 7

RayPoints == (-MaxRayCoord..MaxRayCoord) \X (-MaxRayCoord..MaxRayCoord)

\* Walks along the axes in f32, in configs whose tile size is a power of
\* two: every src of a small grid with every dst up to MaxWalkLength away
\* in each of the four directions, and walks between coordinates of 2^24
\* and above, where not every whole number is an f32.
MaxWalkLength == 6

WalkSizes == {1, 4}

WalkSources == {<<a, b>> : a, b \in {-3, 0, 2}}

FarWalks ==
    {<< <<16777215, 0>>, <<16777228, 0>> >>,
     << <<0, 16777215>>, <<0, 16777228>> >>,
     << <<134217728, 0>>, <<268435456, 0>> >>}

WalkRays ==
    {<<s, <<s[1] + k * d[1], s[2] + k * d[2]>> >> :
        s \in WalkSources, k \in 0..MaxWalkLength,
        d \in {<<1, 0>>, <<-1, 0>>, <<0, 1>>, <<0, -1>>}}
    \cup FarWalks

\* Rays walked with a callback that may break: along X over two tile
\* borders, diagonally over borders of both axes, and of length zero.
BreakRays ==
    {<< <<0, 0>>, <<12500, 0>> >>,
     << <<1000, 1000>>, <<7000, 9000>> >>,
     << <<100, 100>>, <<100, 100>> >>}

\* A collision shape of one tile that starts at 0.4 of the tile width and
\* ends at 1.4: in tile (0,0) it occupies x in [20, 70], y in [0, 50].
LedgeShape == [min |-> <<40, 0>>, max |-> <<140, 100>>]

\* Tiles written in the shape scene and the materials written there: grass
\* and the id the next registration returns.
ShapeTiles == {<<0, 0>>, <<1, 0>>}

ShapeMaterials == {1, 3}

\* A 40x40 box centred at the origin, and the same box 30 further left.
ScenarioMover == [min |-> <<-2000, -2000>>, max |-> <<2000, 2000>>]

ShapeMovers == {ScenarioMover, [min |-> <<-5000, -2000>>, max |-> <<-1000, 2000>>]}

ShapeDisplacements == {<<10000, 0>>, <<2000, 0>>}

\* ------------------------------------------------------------------------
\* State
\* ------------------------------------------------------------------------
VARIABLES
    pc,         \* next step of the frame: game logic, then the systems
    chunks,     \* TileWorld.chunks: chunk coordinate -> Obj<TileChunk>
    objs,       \* RandomArena<TileChunk>, one entry per handle ever made
    events,     \* WorldCreatedChunk events sent so far (chunk handles)
    evCursor,   \* EventReader position of sys_add_collider_to_chunk
    removedCh,  \* RemovedComponents<ObjOwner<TileChunk>> not yet read by
                \* sys_unregister_chunk_from_world
    unlinkCh,   \* the same removals, not yet read by the unlinker
    cchunks,    \* RandomArena<TrackedColliderChunk>, keyed by chunk entity
    collider,   \* Collider component of every collider entity
    added,      \* entities matched by Added<Collider>
    changed,    \* entities matched by Changed<Collider>
    tracked,    \* RandomArena<TrackedCollider>, keyed by collider entity
    removedTC,  \* RemovedComponents<ObjOwner<TrackedCollider>> not yet read
                \* by sys_remove_collider
    unlinkTC,   \* the same removals, not yet read by the unlinker
    reg,        \* history: box last registered for the entity, if any
    written,    \* history: material last written at each tile position
    cache,      \* KinematicApi.cache: MaterialCache<TileColliderDescriptor>
    registry,   \* MaterialRegistry: name_map and the descriptors vector
    listen,     \* ColliderListens.contains of every collider entity, the
                \* ColliderEvents sent by the last run of the listening
                \* system, and history: the kind of the last event of each
                \* pair
    spatials,   \* the arena of Spatial components, in order of creation
    hasher,     \* the order in which the FxHashSet of chunk coordinates of
                \* WorldColliders::collisions is iterated
    last        \* history: the call game logic made in the last step, if it
                \* returned something, with what it returned

vars == <<pc, chunks, objs, events, evCursor, removedCh, unlinkCh, cchunks,
          collider, added, changed, tracked, removedTC, unlinkTC, reg, written, cache,
          registry, listen, spatials, hasher, last>>

worldVars == <<chunks, objs, events, cchunks>>

colliderVars == <<collider, added, changed, tracked, removedTC, unlinkTC, reg>>

\* The state that TileWorld, WorldColliders and TrackedColliderChunk calls
\* thread through: the map, the arenas and the event queue.
World ==
    [chunks |-> chunks, objs |-> objs, events |-> events, cchunks |-> cchunks,
     tracked |-> tracked, reg |-> reg, cache |-> cache, registry |-> registry,
     panic |-> FALSE]

\* ------------------------------------------------------------------------
\* TileChunk / TileWorld (game/tile/data.rs)
\* ------------------------------------------------------------------------
\* TileChunk::default(), freshly put in the arena by Entity::insert.
TileChunkDefault ==
    [live |-> TRUE, entity |-> TRUE, world |-> FALSE,
     neighbors |-> [f \in Faces |-> NONE], pos |-> <<0, 0>>,
     tiles |-> [i \in 0..(CHUNK_AREA - 1) |-> AIR]]

\* The slot of arena T for an entity that has no T component.
NoColliderChunk == [present |-> FALSE, pos |-> <<0, 0>>, aabbs |-> <<>>, handles |-> <<>>]

MapGet(m, k) == IF k \in DOMAIN m THEN m[k] ELSE NONE

MapInsert(m, k, v) == [x \in (DOMAIN m) \cup {k} |-> IF x = k THEN v ELSE m[x]]

MapRemove(m, k) == [x \in (DOMAIN m) \ {k} |-> m[x]]

\* A variant of insert_chunk that links the new chunk to its neighbours but
\* not the neighbours back to it.
insert_chunk_oneway(w, pos, id) ==
    LET m == MapInsert(w.chunks, pos, id)
        nb(f) == MapGet(m, VAdd(pos, FaceVec[f]))
    IN [w EXCEPT
          !.chunks = m,
          !.objs = [i \in DOMAIN w.objs |->
                      IF i = id
                      THEN [w.objs[i] EXCEPT !.world = TRUE, !.pos = pos,
                                             !.neighbors = [f \in Faces |-> nb(f)]]
                      ELSE w.objs[i]]]

insert_chunk(w, pos, id) ==
    LET m == MapInsert(w.chunks, pos, id)
        nb(f) == MapGet(m, VAdd(pos, FaceVec[f]))
    IN [w EXCEPT
          !.chunks = m,
          !.objs = [i \in DOMAIN w.objs |->
                      IF i = id
                      THEN [w.objs[i] EXCEPT !.world = TRUE, !.pos = pos,
                                             !.neighbors = [f \in Faces |-> nb(f)]]
                      ELSE [w.objs[i] EXCEPT !.neighbors =
                              [g \in Faces |->
                                 IF nb(Invert(g)) = i THEN id ELSE w.objs[i].neighbors[g]]]]]

\* A variant of chunk_or_create that sends the notification on every call.
chunk_or_create_always_notify(w, pos) ==
    IF pos \in DOMAIN w.chunks
    THEN [w |-> [w EXCEPT !.events = Append(w.events, w.chunks[pos])], ret |-> w.chunks[pos]]
    ELSE LET id == Len(w.objs) + 1
             w1 == [w EXCEPT !.objs = Append(w.objs, TileChunkDefault),
                             !.cchunks = Append(w.cchunks, NoColliderChunk)]
             w2 == insert_chunk(w1, pos, id)
         IN [w |-> [w2 EXCEPT !.events = Append(w2.events, id)], ret |-> id]

\* Returns the world after the call and the handle returned.
chunk_or_create(w, pos) ==
    IF pos \in DOMAIN w.chunks
    THEN [w |-> w, ret |-> w.chunks[pos]]
    ELSE LET id == Len(w.objs) + 1
             w1 == [w EXCEPT !.objs = Append(w.objs, TileChunkDefault),
                             !.cchunks = Append(w.cchunks, NoColliderChunk)]
             w2 == insert_chunk(w1, pos, id)
         IN [w |-> [w2 EXCEPT !.events = Append(w2.events, id)], ret |-> id]

ChunkTile(c, block) == c.tiles[to_tile_index(block)]

\* A variant of tile that resolves the chunk with chunk_or_create.
tile_or_create(w, pos) ==
    LET d == decompose_world_pos(pos)
        r == chunk_or_create(w, d.chunk)
    IN [w |-> r.w, ret |-> ChunkTile(r.w.objs[r.ret], d.block)]

\* TileWorld::tile: the world after the call and the material returned.
tile(w, pos) ==
    LET d == decompose_world_pos(pos)
    IN [w |-> w,
        ret |-> IF d.chunk \in DOMAIN w.chunks
                THEN ChunkTile(w.objs[w.chunks[d.chunk]], d.block)
                ELSE AIR]

\* TileWorld::set_tile with TileChunk::set_tile
set_tile(w, pos, data) ==
    LET d == decompose_world_pos(pos)
        r == chunk_or_create(w, d.chunk)
    IN [r.w EXCEPT !.objs[r.ret].tiles[to_tile_index(d.block)] = data]

\* A variant of remove_from_world that forgets the neighbours' slots.
remove_from_world_keep_links(w, id) ==
    IF ~w.objs[id].world
    THEN w
    ELSE [w EXCEPT !.chunks = MapRemove(w.chunks, w.objs[id].pos),
                   !.objs[id].world = FALSE]

remove_from_world(w, id) ==
    IF ~w.objs[id].world
    THEN w
    ELSE LET self == w.objs[id]
         IN [w EXCEPT
               !.chunks = MapRemove(w.chunks, self.pos),
               !.objs = [i \in DOMAIN w.objs |->
                           IF i = id
                           THEN [w.objs[i] EXCEPT !.world = FALSE]
                           ELSE [w.objs[i] EXCEPT !.neighbors =
                                   [g \in Faces |->
                                      IF self.neighbors[Invert(g)] = i
                                      THEN NONE ELSE w.objs[i].neighbors[g]]]]]

\* ------------------------------------------------------------------------
\* Aabb (game/math/aabb.rs)
\* ------------------------------------------------------------------------
\* Closed boxes: two boxes that only touch intersect.
Intersects(a, b) ==
    /\ a.min[1] <= b.max[1] /\ b.min[1] <= a.max[1]
    /\ a.min[2] <= b.max[2] /\ b.min[2] <= a.max[2]

Grow(a, by) == [min |-> <<a.min[1] - by, a.min[2] - by>>,
                max |-> <<a.max[1] + by, a.max[2] + by>>]

Center(a) == <<DivEuclid(a.min[1] + a.max[1], 2), DivEuclid(a.min[2] + a.max[2], 2)>>

Translated(a, by) == [min |-> VAdd(a.min, by), max |-> VAdd(a.max, by)]

\* AabbI::inclusive().iter() over actor_aabb_to_tile(aabb)
TilesOf(aabb) ==
    LET lo == actor_to_tile(aabb.min)
        hi == actor_to_tile(aabb.max)
    IN {<<x, y>> : x \in lo[1]..hi[1], y \in lo[2]..hi[2]}

\* ------------------------------------------------------------------------
\* TrackedColliderChunk / WorldColliders (game/tile/collider.rs)
\* ------------------------------------------------------------------------
NoBox == [min |-> <<0, 0>>, max |-> <<-1, -1>>]

NoTracked == [present |-> FALSE, chunk |-> NONE, index |-> 0]

\* Vec::swap_remove at a 0-based index; the source panics when the index is
\* out of bounds, which leaves the vector as it was.
SwapRemove(s, i) ==
    IF i + 1 > Len(s) THEN s
    ELSE IF i + 1 = Len(s) THEN SubSeq(s, 1, Len(s) - 1)
    ELSE SubSeq(s, 1, i) \o <<s[Len(s)]>> \o SubSeq(s, i + 2, Len(s) - 1)

get_collider_chunk_or_insert(w, c) ==
    IF w.cchunks[c].present THEN w
    ELSE [w EXCEPT !.cchunks[c] =
            [present |-> TRUE, pos |-> w.objs[c].pos, aabbs |-> <<>>, handles |-> <<>>]]

\* TrackedColliderChunk::register
register(w, c, e, aabb) ==
    [w EXCEPT !.tracked[e] = [present |-> TRUE, chunk |-> c,
                              index |-> Len(w.cchunks[c].handles)],
              !.cchunks[c].aabbs = Append(@, aabb),
              !.cchunks[c].handles = Append(@, e),
              !.reg[e] = aabb]

\* A variant of unregister that does not patch the index of the element
\* moved into the vacated slot.
unregister_no_patch(w, c, e) ==
    LET idx == w.tracked[e].index
    IN [w EXCEPT !.cchunks[c].aabbs = SwapRemove(@, idx),
                 !.cchunks[c].handles = SwapRemove(@, idx),
                 !.reg[e] = NoBox]

\* TrackedColliderChunk::unregister
unregister(w, c, e) ==
    LET idx == w.tracked[e].index
        hs == SwapRemove(w.cchunks[c].handles, idx)
        w1 == [w EXCEPT !.cchunks[c].aabbs = SwapRemove(@, idx),
                        !.cchunks[c].handles = hs,
                        !.reg[e] = NoBox]
    IN IF idx + 1 <= Len(hs)
       THEN [w1 EXCEPT !.tracked[hs[idx + 1]].index = idx]
       ELSE w1

\* TrackedColliderChunk::intersections, as a sequence of <<entity, box>>
RECURSIVE intersections(_, _, _)
intersections(cc, aabb, i) ==
    IF i > Len(cc.handles) \/ i > Len(cc.aabbs) THEN <<>>
    ELSE (IF Intersects(aabb, cc.aabbs[i]) THEN << <<cc.handles[i], cc.aabbs[i]>> >> ELSE <<>>)
         \o intersections(cc, aabb, i + 1)

\* The chunk coordinates WorldColliders::collisions collects in its set.
CoveredChunks(aabb) ==
    {decompose_world_pos(t).chunk : t \in TilesOf(Grow(aabb, CollisionMargin))}

\* The set is iterated in the hasher's order, which the source leaves
\* unspecified; the model visits it in lexicographic order.
FirstCoord(S) ==
    CHOOSE c \in S : \A d \in S : c[1] < d[1] \/ (c[1] = d[1] /\ c[2] <= d[2])

LastCoord(S) ==
    CHOOSE c \in S : \A d \in S : c[1] > d[1] \/ (c[1] = d[1] /\ c[2] >= d[2])

\* The coordinate the iteration of the set yields next: the order is the
\* hasher's.
HashedCoord(S) == IF hasher = "ascending" THEN FirstCoord(S) ELSE LastCoord(S)

RECURSIVE collisions_visit(_, _, _)
collisions_visit(w, aabb, todo) ==
    IF todo = {} THEN [w |-> w, ret |-> <<>>]
    ELSE LET c == HashedCoord(todo)
             r == chunk_or_create(w, c)
             w1 == get_collider_chunk_or_insert(r.w, r.ret)
             rest == collisions_visit(w1, aabb, todo \ {c})
         IN [w |-> rest.w,
             ret |-> intersections(w1.cchunks[r.ret], aabb, 1) \o rest.ret]

\* WorldColliders::collisions with a callback that never breaks: the world
\* after the call and the sequence of pairs handed to the callback.
collisions(w, aabb) == collisions_visit(w, aabb, CoveredChunks(aabb))

\* A variant of the loop body of sys_add_collider that registers into the
\* chunk without attaching its collider state first.
add_collider_without_state(w, e, aabb) ==
    LET r == chunk_or_create(w, actor_to_decomposed(Center(aabb)).chunk)
        w2 == [r.w EXCEPT !.tracked[e] = [present |-> TRUE, chunk |-> r.ret, index |-> 0]]
    IN register(w2, r.ret, e, aabb)

\* Body of the loop of sys_add_collider for one entity.
add_collider(w, e, aabb) ==
    LET r == chunk_or_create(w, actor_to_decomposed(Center(aabb)).chunk)
        w1 == get_collider_chunk_or_insert(r.w, r.ret)
        w2 == [w1 EXCEPT !.tracked[e] = [present |-> TRUE, chunk |-> r.ret, index |-> 0]]
    IN register(w2, r.ret, e, aabb)

\* A variant of the loop body of sys_move_colliders without the cheap
\* path: the collider is unregistered and registered again even when its
\* chunk stays the same.
move_collider_always_relocate(w, e, aabb) ==
    LET old_chunk == w.tracked[e].chunk
        new_pos == actor_to_decomposed(Center(aabb)).chunk
        w1 == unregister(w, old_chunk, e)
        r == chunk_or_create(w1, new_pos)
        w2 == get_collider_chunk_or_insert(r.w, r.ret)
    IN register(w2, r.ret, e, aabb)

\* Body of the loop of sys_move_colliders for one entity.
move_collider(w, e, aabb) ==
    LET old_chunk == w.tracked[e].chunk
        old_pos == w.cchunks[old_chunk].pos
        new_pos == actor_to_decomposed(Center(aabb)).chunk
    IN IF new_pos = old_pos
       THEN [w EXCEPT !.cchunks[old_chunk].aabbs[w.tracked[e].index + 1] = aabb,
                      !.reg[e] = aabb]
       ELSE LET w1 == unregister(w, old_chunk, e)
                r == chunk_or_create(w1, new_pos)
                w2 == get_collider_chunk_or_insert(r.w, r.ret)
            IN register(w2, r.ret, e, aabb)

\* F applied to the value of x, which is computed once.
Bind(x, F(_)) == CHOOSE r \in {F(v) : v \in {x}} : TRUE

\* ------------------------------------------------------------------------
\* MaterialRegistry / MaterialCache (game/tile/material.rs)
\* ------------------------------------------------------------------------
\* 1.0 in the fixed-point representation, and the product of two
\* fixed-point numbers.
One == 100

FMul(a, b) == (a * b) \div One

\* Aabb::ZERO_TO_ONE, in units of one tile.
ZERO_TO_ONE == [min |-> <<0, 0>>, max |-> <<One, One>>]

\* MaterialId(pub u16): a usize cast to the id type.
IdBits == 16

AsU16(n) == n % (2 ^ IdBits)

\* An entity handed to MaterialRegistry::register: spawn_entity(()) with or
\* without a TileColliderDescriptor component.
PlainEntity == [has_collider |-> FALSE, aabbs |-> <<>>]

ColliderEntity(aabbs) == [has_collider |-> TRUE, aabbs |-> aabbs]

\* MaterialRegistry::default().  The descriptors vector is kept as its
\* length and the entities at the indices that were pushed in the
\* behaviour; base holds the BaseMaterialDescriptor put on each of them.
EmptyRegistry == [name_map |-> <<>>, len |-> 0, descriptors |-> <<>>, base |-> <<>>]

\* The registry after 2^16 - 2 registrations.
NearlyFullRegistry == [EmptyRegistry EXCEPT !.len = 2 ^ IdBits - 2]

\* A variant of register that keeps the id a name already has.
MaterialRegistry_register_keep_first(r, name, entity) ==
    LET did == AsU16(r.len)
    IN [r |-> [name_map |-> IF name \in DOMAIN r.name_map THEN r.name_map
                            ELSE MapInsert(r.name_map, name, did),
               len |-> r.len + 1,
               descriptors |-> MapInsert(r.descriptors, r.len, entity),
               base |-> MapInsert(r.base, r.len, [id |-> did, name |-> name])],
        ret |-> did]

\* MaterialRegistry::register: the registry after the call and the id
\* returned.
MaterialRegistry_register(r, name, entity) ==
    LET did == AsU16(r.len)
    IN [r |-> [name_map |-> MapInsert(r.name_map, name, did),
               len |-> r.len + 1,
               descriptors |-> MapInsert(r.descriptors, r.len, entity),
               base |-> MapInsert(r.base, r.len, [id |-> did, name |-> name])],
        ret |-> did]

\* A variant of lookup that finds an entity without components at every
\* index.
MaterialRegistry_lookup_total(r, id) ==
    [panic |-> FALSE,
     ret |-> IF id \in DOMAIN r.descriptors THEN r.descriptors[id] ELSE PlainEntity]

\* MaterialRegistry::lookup: indexing the vector panics past its end.  An
\* index pushed before the behaviour started holds an entity without
\* collision shape.
MaterialRegistry_lookup(r, id) ==
    IF id >= r.len THEN [panic |-> TRUE, ret |-> PlainEntity]
    ELSE [panic |-> FALSE,
          ret |-> IF id \in DOMAIN r.descriptors THEN r.descriptors[id] ELSE PlainEntity]

\* MaterialRegistry::lookup_by_name.
lookup_by_name(r, name) ==
    IF name \in DOMAIN r.name_map THEN [some |-> TRUE, id |-> r.name_map[name]]
    ELSE [some |-> FALSE, id |-> 0]

\* The registry built by sys_create_local_player: "game:air" (0) has no
\* TileColliderDescriptor, "game:grass" (1) and "game:stone" (2) have the
\* unit box.
PlayerRegistry ==
    MaterialRegistry_register(
        MaterialRegistry_register(
            MaterialRegistry_register(EmptyRegistry, "game:air", PlainEntity).r,
            "game:grass", ColliderEntity(<<ZERO_TO_ONE>>)).r,
        "game:stone", ColliderEntity(<<ZERO_TO_ONE>>)).r

\* Materials game logic registers in the shape scene: one with the ledge
\* shape and one without collision shape.
ShapeRegistrations ==
    {<<"game:ledge", ColliderEntity(<<LedgeShape>>)>>, <<"game:vine", PlainEntity>>}

\* Materials registered in the scan scene, into a new registry, so that
\* any of them can get id 0: a solid one, one with two shapes (the ledge
\* and the upper left quarter of the tile) and one without shape.
QuarterShape == [min |-> <<0, 0>>, max |-> <<50, 50>>]

ScanRegistrations ==
    {<<"game:solid", ColliderEntity(<<ZERO_TO_ONE>>)>>,
     <<"game:steps", ColliderEntity(<<LedgeShape, QuarterShape>>)>>,
     <<"game:vine", PlainEntity>>}

\* Number of materials registered for the cache on its own, and number of
\* consecutive calls of the cache.
MaxCacheMaterials == 3

MaxCacheGets == 4

\* Number of materials registered in the scan scene.
MaxScanMaterials == 2

\* Regions scanned there: one over the tiles (0,0) and (1,0), one inside
\* tile (1,0) that the ledge of tile (0,0) reaches into.
ScanRegions ==
    {[min |-> <<1000, 1000>>, max |-> <<6000, 4000>>],
     [min |-> <<5500, 1000>>, max |-> <<6500, 4000>>]}

\* A collider entity of the scan scene, inside tile (0,0) and (1,0).
ScanColliders == {[min |-> <<3000, 2000>>, max |-> <<5800, 3000>>]}

\* Names and entities registered in a registry on its own.
Names == {"game:dirt", "game:sand"}

RegistryEntities == {PlainEntity, ColliderEntity(<<ZERO_TO_ONE>>)}

\* Entity::try_get::<TileColliderDescriptor>: the handle of the component
\* of the entity at an index of the vector is the index plus one.
RegistryTryGet(entity, id) == IF entity.has_collider THEN id + 1 ELSE NONE

\* A variant in which every descriptor holds the unit box.
TileColliderDescriptor_unit(w, obj) == <<ZERO_TO_ONE>>

\* The aabbs behind an Obj<TileColliderDescriptor>.
TileColliderDescriptor(w, obj) == w.registry.descriptors[obj - 1].aabbs

\* A variant of MaterialCache::get that pushes the result of a lookup
\* past the end of the vector instead of growing the vector to the index.
MaterialCacheGet_push(w, id) ==
    IF id + 1 <= Len(w.cache) /\ w.cache[id + 1] # NONE
    THEN [w |-> w, ret |-> w.cache[id + 1], lookups |-> 0]
    ELSE Bind(MaterialRegistry_lookup(w.registry, id), LAMBDA e :
         IF e.panic THEN [w |-> [w EXCEPT !.panic = TRUE], ret |-> NONE, lookups |-> 1]
         ELSE LET obj == RegistryTryGet(e.ret, id)
              IN [w |-> [w EXCEPT !.cache =
                            IF id + 1 <= Len(w.cache)
                            THEN SubSeq(w.cache, 1, id) \o <<obj>>
                                 \o SubSeq(w.cache, id + 2, Len(w.cache))
                            ELSE Append(w.cache, obj)],
                  ret |-> obj, lookups |-> 1])

\* MaterialCache::get: a cached Some is returned, anything else is looked
\* up in the registry and stored, the vector growing to hold the index.
\* The panic of the registry lookup ends the call.  lookups counts the
\* calls of registry.lookup(id).try_get::<T>() made.
MaterialCacheGet(w, id) ==
    IF id + 1 <= Len(w.cache) /\ w.cache[id + 1] # NONE
    THEN [w |-> w, ret |-> w.cache[id + 1], lookups |-> 0]
    ELSE Bind(MaterialRegistry_lookup(w.registry, id), LAMBDA e :
         IF e.panic THEN [w |-> [w EXCEPT !.panic = TRUE], ret |-> NONE, lookups |-> 1]
         ELSE LET obj == RegistryTryGet(e.ret, id)
                  n == Max2(Len(w.cache), id + 1)
                  filled == SubSeq(w.cache \o [k \in 1..(id + 1) |-> NONE], 1, n)
              IN [w |-> [w EXCEPT !.cache = SubSeq(filled, 1, id) \o <<obj>>
                                             \o SubSeq(filled, id + 2, n)],
                  ret |-> obj, lookups |-> 1])

\* ------------------------------------------------------------------------
\* KinematicApi (game/tile/kinematic.rs)
\* ------------------------------------------------------------------------
\* glam helpers: a magnitude added away from zero, the sign of a value with
\* zero counted as positive, and a value placed on one axis.
add_magnitude(v, by) == IF v < 0 THEN v - by ELSE v + by

SignOfBiased(v) == IF v < 0 THEN -1 ELSE 1

UnitMag(axis, v) == IF axis = 1 THEN <<v, 0>> ELSE <<0, v>>

\* Aabb::translate_extend: the box stretched by the vector on the side the
\* vector points to.
translate_extend(a, by) ==
    [min |-> <<a.min[1] + Min2(by[1], 0), a.min[2] + Min2(by[2], 0)>>,
     max |-> <<a.max[1] + Max2(by[1], 0), a.max[2] + Max2(by[2], 0)>>]

tile_to_actor_rect(t) == TileLayerConfig_tile_to_actor_rect(TileSize, t)

\* The boxes of one descriptor, scaled to the tile size, moved to the tile
\* and kept when they intersect the checked box.
RECURSIVE descriptor_collisions(_, _, _, _)
descriptor_collisions(aabbs, offset, check_aabb, i) ==
    IF i > Len(aabbs) THEN <<>>
    ELSE LET tile_aabb == Translated(
                 [min |-> <<FMul(aabbs[i].min[1], TileSize), FMul(aabbs[i].min[2], TileSize)>>,
                  max |-> <<FMul(aabbs[i].max[1], TileSize), FMul(aabbs[i].max[2], TileSize)>>],
                 offset)
         IN (IF Intersects(tile_aabb, check_aabb)
             THEN <<[kind |-> "tile", aabb |-> tile_aabb]>> ELSE <<>>)
            \o descriptor_collisions(aabbs, offset, check_aabb, i + 1)

\* The collisions of one tile, given the result c of the cache lookup,
\* followed by the collisions rest of the tiles after it.
tile_found(t, c, check_aabb, rest) ==
    [w |-> rest.w,
     ret |-> (IF c.ret = NONE THEN <<>>
              ELSE descriptor_collisions(TileColliderDescriptor(rest.w, c.ret),
                                         tile_to_actor_rect(t).min, check_aabb, 1))
             \o rest.ret]

\* The tile loop of iter_colliders_in.
RECURSIVE tile_collisions(_, _, _)
tile_collisions(w, check_aabb, todo) ==
    IF todo = {} THEN [w |-> w, ret |-> <<>>]
    ELSE Bind(FirstCoord(todo), LAMBDA t :
         Bind(tile(w, t).ret, LAMBDA material :
            IF material = AIR
            THEN Bind(todo \ {t}, LAMBDA rest : tile_collisions(w, check_aabb, rest))
            ELSE Bind(MaterialCacheGet(w, material), LAMBDA c :
                 IF c.w.panic THEN [w |-> c.w, ret |-> <<>>]
                 ELSE Bind(todo \ {t}, LAMBDA rest :
                      Bind(tile_collisions(c.w, check_aabb, rest), LAMBDA found :
                           tile_found(t, c, check_aabb, found))))))

RECURSIVE collider_collisions(_, _)
collider_collisions(pairs, i) ==
    IF i > Len(pairs) THEN <<>>
    ELSE <<[kind |-> "collider", aabb |-> pairs[i][2]]>> \o collider_collisions(pairs, i + 1)

\* KinematicApi::iter_colliders_in with a callback that never breaks: the
\* world after the call and the collisions handed to the callback.
iter_colliders_in(w, check_aabb) ==
    Bind(TilesOf(check_aabb), LAMBDA todo :
    Bind(tile_collisions(w, check_aabb, todo), LAMBDA tiles :
         IF tiles.w.panic THEN tiles
         ELSE Bind(collisions(tiles.w, check_aabb), LAMBDA dyn :
              [w |-> dyn.w, ret |-> tiles.ret \o collider_collisions(dyn.ret, 1)])))

\* The filters callers pass: tiles only (sys_update_moving_colliders) or
\* colliders only.
Filters == {"tiles", "colliders"}

Filter(f, c) ==
    \/ f = "any"
    \/ f = "tiles" /\ c.kind = "tile"
    \/ f = "colliders" /\ c.kind = "collider"

\* A variant of the scanned region that reaches only TOLERANCE ahead, as
\* the probe of get_clip_mask does, whatever the displacement.
check_aabb_of_probe(aabb, axis, signed_delta) ==
    translate_extend(aabb, UnitMag(axis, SignOfBiased(signed_delta) * TOLERANCE))

\* A variant of the scanned region that is widened by TOLERANCE on every
\* side, not only ahead of the mover.
check_aabb_of_grown(aabb, axis, signed_delta) ==
    Grow(translate_extend(aabb, UnitMag(axis, add_magnitude(signed_delta, TOLERANCE))),
         TOLERANCE)

\* The region move_by scans on one axis.
check_aabb_of(aabb, axis, signed_delta) ==
    translate_extend(aabb, UnitMag(axis, add_magnitude(signed_delta, TOLERANCE)))

\* A variant of acceptable_delta that forgets the tolerance.
acceptable_delta_no_tolerance(aabb, collider_aabb, axis, signed_delta) ==
    Abs(IF signed_delta < 0
        THEN aabb.min[axis] - collider_aabb.max[axis]
        ELSE collider_aabb.min[axis] - aabb.max[axis])

acceptable_delta(aabb, collider_aabb, axis, signed_delta) ==
    Abs(IF signed_delta < 0
        THEN aabb.min[axis] - collider_aabb.max[axis]
        ELSE collider_aabb.min[axis] - aabb.max[axis]) - TOLERANCE

\* A variant of the loop of move_by that lets every collision clamp the
\* displacement, whatever the filter says.
RECURSIVE clamp_delta_unfiltered(_, _, _, _, _, _, _)
clamp_delta_unfiltered(found, i, aabb, axis, signed_delta, filter, delta) ==
    IF i > Len(found) THEN delta
    ELSE clamp_delta_unfiltered(found, i + 1, aabb, axis, signed_delta, filter,
             Min2(delta, Max2(acceptable_delta(aabb, found[i].aabb, axis, signed_delta), 0)))

\* A variant of the loop of move_by in which the last accepted collision
\* decides the displacement.
RECURSIVE clamp_delta_last_wins(_, _, _, _, _, _, _)
clamp_delta_last_wins(found, i, aabb, axis, signed_delta, filter, delta) ==
    IF i > Len(found) THEN delta
    ELSE clamp_delta_last_wins(found, i + 1, aabb, axis, signed_delta, filter,
             IF ~Filter(filter, found[i]) THEN delta
             ELSE Min2(Abs(signed_delta),
                       Max2(acceptable_delta(aabb, found[i].aabb, axis, signed_delta), 0)))

\* The loop of move_by over the collisions of one axis.
RECURSIVE clamp_delta(_, _, _, _, _, _, _)
clamp_delta(found, i, aabb, axis, signed_delta, filter, delta) ==
    IF i > Len(found) THEN delta
    ELSE clamp_delta(found, i + 1, aabb, axis, signed_delta, filter,
             IF ~Filter(filter, found[i]) THEN delta
             ELSE Min2(delta, Max2(acceptable_delta(aabb, found[i].aabb, axis, signed_delta), 0)))

\* One iteration of the axis loop of move_by on the state
\* [w, aabb, total_by].
move_axis(s, axis, by, filter) ==
    Bind(by[axis], LAMBDA signed_delta :
    Bind(check_aabb_of(s.aabb, axis, signed_delta), LAMBDA check_aabb :
    Bind(iter_colliders_in(s.w, check_aabb), LAMBDA found :
    IF found.w.panic THEN [w |-> found.w, aabb |-> s.aabb, total_by |-> s.total_by] ELSE
    Bind(UnitMag(axis, SignOfBiased(signed_delta)
                       * clamp_delta(found.ret, 1, s.aabb, axis, signed_delta, filter,
                                     Abs(signed_delta))), LAMBDA delta :
         [w |-> found.w, aabb |-> Translated(s.aabb, delta),
          total_by |-> VAdd(s.total_by, delta)]))))

\* A variant of move_by that resolves the Y axis against the box it was
\* given, not against the box moved by the resolved X displacement.
move_by_from_original_box(w, aabb, by, filter) ==
    Bind(move_axis([w |-> w, aabb |-> aabb, total_by |-> <<0, 0>>], 1, by, filter), LAMBDA x :
    IF x.w.panic THEN [w |-> x.w, ret |-> x.total_by] ELSE
    Bind(move_axis([x EXCEPT !.aabb = aabb], 2, by, filter), LAMBDA y :
         [w |-> y.w, ret |-> y.total_by]))

\* KinematicApi::move_by: the world after the call and the displacement
\* returned.
move_by(w, aabb, by, filter) ==
    Bind(move_axis([w |-> w, aabb |-> aabb, total_by |-> <<0, 0>>], 1, by, filter), LAMBDA x :
    IF x.w.panic THEN [w |-> x.w, ret |-> x.total_by] ELSE
    Bind(move_axis(x, 2, by, filter), LAMBDA y :
         [w |-> y.w, ret |-> y.total_by]))

\* ------------------------------------------------------------------------
\* Callbacks that may break (ControlFlow)
\* ------------------------------------------------------------------------
\* A callback as data: it returns Break at the after-th collision its
\* filter accepts, never when after is 0.  seen is the sequence of
\* collisions it was invoked with and broke whether it returned Break.
Callback(filter, after) ==
    [filter |-> filter, left |-> after, seen |-> <<>>, broke |-> FALSE]

\* One invocation f(item).
Invoke(cb, item) ==
    [filter |-> cb.filter,
     left |-> IF Filter(cb.filter, item) /\ cb.left > 0 THEN cb.left - 1 ELSE cb.left,
     seen |-> cb.seen \o <<item>>,
     broke |-> Filter(cb.filter, item) /\ cb.left = 1]

\* A variant of the loop that ignores what the callback returns.
RECURSIVE Feed_to_the_end(_, _, _)
Feed_to_the_end(cb, items, i) ==
    IF i > Len(items) THEN cb
    ELSE Bind(Invoke(cb, items[i]), LAMBDA c : Feed_to_the_end(c, items, i + 1))

\* for item in items { f(item)?; }
RECURSIVE Feed(_, _, _)
Feed(cb, items, i) ==
    IF i > Len(items) \/ cb.broke THEN cb
    ELSE Bind(Invoke(cb, items[i]), LAMBDA c : Feed(c, items, i + 1))

\* The pairs of TrackedColliderChunk::intersections as the collisions the
\* callback receives.
ColliderItems(pairs) ==
    [i \in 1..Len(pairs) |->
        [kind |-> "collider", entity |-> pairs[i][1], aabb |-> pairs[i][2]]]

\* The chunk loop of WorldColliders::collisions: a chunk is fetched or
\* created, then its intersections are handed to the callback until it
\* breaks.
RECURSIVE collisions_visit_until(_, _, _, _)
collisions_visit_until(w, aabb, todo, cb) ==
    IF todo = {} \/ cb.broke THEN [w |-> w, cb |-> cb]
    ELSE Bind(HashedCoord(todo), LAMBDA c :
         Bind(chunk_or_create(w, c), LAMBDA r :
         Bind(get_collider_chunk_or_insert(r.w, r.ret), LAMBDA w1 :
         Bind(Feed(cb, ColliderItems(intersections(w1.cchunks[r.ret], aabb, 1)), 1),
              LAMBDA cb1 : collisions_visit_until(w1, aabb, todo \ {c}, cb1)))))

\* WorldColliders::collisions: the world after the call and the callback
\* after its last invocation.
collisions_until(w, aabb, cb) == collisions_visit_until(w, aabb, CoveredChunks(aabb), cb)

\* The collisions of one tile: AnyCollision::Tile(tile, material, box).
TileItems(t, material, found) ==
    [i \in 1..Len(found) |->
        [kind |-> "tile", tile |-> t, material |-> material, aabb |-> found[i].aabb]]

\* The tile loop of iter_colliders_in.
RECURSIVE tile_collisions_until(_, _, _, _)
tile_collisions_until(w, check_aabb, todo, cb) ==
    IF todo = {} \/ cb.broke \/ w.panic THEN [w |-> w, cb |-> cb]
    ELSE Bind(FirstCoord(todo), LAMBDA t :
         Bind(tile(w, t).ret, LAMBDA material :
         Bind(todo \ {t}, LAMBDA rest :
            IF material = AIR THEN tile_collisions_until(w, check_aabb, rest, cb)
            ELSE Bind(MaterialCacheGet(w, material), LAMBDA c :
                 IF c.w.panic \/ c.ret = NONE
                 THEN tile_collisions_until(c.w, check_aabb, rest, cb)
                 ELSE Bind(Feed(cb, TileItems(t, material,
                                    descriptor_collisions(TileColliderDescriptor(c.w, c.ret),
                                        tile_to_actor_rect(t).min, check_aabb, 1)), 1),
                           LAMBDA cb1 : tile_collisions_until(c.w, check_aabb, rest, cb1))))))

\* A variant of iter_colliders_in that hands over the dynamic colliders
\* before the tiles.
iter_colliders_in_until_colliders_first(w, check_aabb, cb) ==
    Bind(collisions_until(w, check_aabb, cb), LAMBDA dyn :
         IF dyn.cb.broke THEN dyn
         ELSE tile_collisions_until(dyn.w, check_aabb, TilesOf(check_aabb), dyn.cb))

\* KinematicApi::iter_colliders_in: the tiles, then the dynamic colliders,
\* until the callback breaks.
iter_colliders_in_until(w, check_aabb, cb) ==
    Bind(tile_collisions_until(w, check_aabb, TilesOf(check_aabb), cb), LAMBDA tiles :
         IF tiles.w.panic \/ tiles.cb.broke THEN tiles
         ELSE collisions_until(tiles.w, check_aabb, tiles.cb))

\* A variant of has_colliders_in that takes the first collision found,
\* whatever the filter says.
has_colliders_in_unfiltered(w, check_aabb, filter) ==
    Bind(iter_colliders_in_until(w, check_aabb, Callback("any", 1)), LAMBDA r :
         [w |-> r.w, ret |-> r.cb.broke])

\* KinematicApi::has_colliders_in: the callback returns at the first
\* collision the filter accepts.
has_colliders_in(w, check_aabb, filter) ==
    Bind(iter_colliders_in_until(w, check_aabb, Callback(filter, 1)), LAMBDA r :
         [w |-> r.w, ret |-> r.cb.broke])

\* A variant of the probed region without the extension: the box itself.
clip_probe_without_extension(aabb, axis, signed_delta) == aabb

\* The region get_clip_mask probes on one axis: (TOLERANCE * 2.) with the
\* sign of the velocity component.
clip_probe(aabb, axis, signed_delta) ==
    translate_extend(aabb, UnitMag(axis, SignOfBiased(signed_delta) * (TOLERANCE * 2)))

\* KinematicApi::get_clip_mask: both axes probe the box as given.
get_clip_mask(w, aabb, by, filter) ==
    Bind(has_colliders_in(w, clip_probe(aabb, 1, by[1]), filter), LAMBDA x :
    IF x.w.panic THEN [w |-> x.w, ret |-> <<FALSE, FALSE>>] ELSE
    Bind(has_colliders_in(x.w, clip_probe(aabb, 2, by[2]), filter), LAMBDA y :
         [w |-> y.w, ret |-> <<~x.ret, ~y.ret>>]))

\* ------------------------------------------------------------------------
\* Ray stepping (game/tile/data.rs)
\* ------------------------------------------------------------------------
\* TileFace::compose, and the coordinate of the edge line of a box on a
\* face.
Compose(axis, sign) ==
    IF axis = 1 THEN (IF sign < 0 THEN 1 ELSE 2) ELSE (IF sign < 0 THEN 3 ELSE 4)

EdgeLineNorm(rect, face) ==
    CASE face = 1 -> rect.min[1]
      [] face = 2 -> rect.max[1]
      [] face = 3 -> rect.min[2]
      [] face = 4 -> rect.max[2]

\* The quotient of two fixed-point numbers.
FDiv(a, b) == (a * One) \div b

\* Vec2::length, for the vectors whose length is a fixed-point number.
Length(v) ==
    IF v[2] = 0 THEN Abs(v[1])
    ELSE IF v[1] = 0 THEN Abs(v[2])
    ELSE CHOOSE r \in 0..(Abs(v[1]) + Abs(v[2])) : r * r = v[1] * v[1] + v[2] * v[2]

\* step_ray: the crossings of the tile borders between origin and
\* origin + delta, at most one per axis, as [face, entered_tile].  The
\* crossing of an axis lies at the fraction num / den of the step, and
\* its dist is that fraction of the distance between origin and delta, so
\* that the stable sort by dist moves the Y crossing first only when the
\* fraction of Y is smaller and origin differs from delta.
step_ray(origin, delta) ==
    LET origin_tile == actor_to_tile(origin)
        dest == VAdd(origin, delta)
        crossed(axis) == actor_to_tile_axis(origin[axis]) # actor_to_tile_axis(dest[axis])
        face(axis) == Compose(axis, SignOfBiased(delta[axis]))
        num(axis) == Abs(EdgeLineNorm(tile_to_actor_rect(origin_tile), face(axis))
                         - origin[axis])
        den(axis) == Abs(delta[axis])
        found == (IF crossed(1) THEN <<1>> ELSE <<>>) \o (IF crossed(2) THEN <<2>> ELSE <<>>)
        sorted == IF Len(found) = 2 /\ origin # delta /\ num(2) * den(1) < num(1) * den(2)
                  THEN <<2, 1>> ELSE found
        first == VAdd(origin_tile, FaceVec[face(sorted[1])])
    IN IF Len(sorted) = 0 THEN <<>>
       ELSE IF Len(sorted) = 1
       THEN <<[face |-> face(sorted[1]), entered_tile |-> first]>>
       ELSE <<[face |-> face(sorted[1]), entered_tile |-> first],
              [face |-> face(sorted[2]),
               entered_tile |-> VAdd(first, FaceVec[face(sorted[2])])]>>

\* scalar::ilerp_f32(a, b, v), the fraction of the way from a to b at
\* which v lies, kept exact as numerator and denominator.
ilerp_f32(a, b, v) == [num |-> v - a, den |-> b - a]

\* One RayIntersection of step_ray for a config of the given tile size,
\* before the sort.  isect_pos is origin.lerp(delta, t), that is
\* origin + (delta - origin) * t, kept exact as the vector pos over the
\* denominator den; dist is origin.distance(isect_pos), kept as its square
\* dist_sq_num over den * den.
RayIntersection(size, origin, delta, axis) ==
    LET origin_tile == TileLayerConfig_actor_to_tile(size, origin)
        face == Compose(axis, SignOfBiased(delta[axis]))
        iface_value == EdgeLineNorm(TileLayerConfig_tile_to_actor_rect(size, origin_tile), face)
        t == ilerp_f32(origin[axis], origin[axis] + delta[axis], iface_value)
        by == <<(delta[1] - origin[1]) * t.num, (delta[2] - origin[2]) * t.num>>
    IN [face |-> face, axis |-> axis, iface |-> iface_value,
        pos |-> <<origin[1] * t.den + by[1], origin[2] * t.den + by[2]>>,
        den |-> t.den,
        dist_sq_num |-> by[1] * by[1] + by[2] * by[2]]

\* a.dist < b.dist
DistLess(a, b) == a.dist_sq_num * (b.den * b.den) < b.dist_sq_num * (a.den * a.den)

\* TileLayerConfig::step_ray of a config with the given tile size: the
\* intersections of the axes whose tile changes, stably sorted by dist,
\* with the tiles entered in that order.
TileLayerConfig_step_ray(size, origin, delta) ==
    LET origin_tile == TileLayerConfig_actor_to_tile(size, origin)
        crossed(axis) ==
            TileLayerConfig_actor_to_tile_axis(size, origin[axis])
                # TileLayerConfig_actor_to_tile_axis(size, origin[axis] + delta[axis])
        found == (IF crossed(1) THEN <<RayIntersection(size, origin, delta, 1)>> ELSE <<>>)
                 \o (IF crossed(2) THEN <<RayIntersection(size, origin, delta, 2)>> ELSE <<>>)
        sorted == IF Len(found) = 2 /\ DistLess(found[2], found[1])
                  THEN <<found[2], found[1]>> ELSE found
        entered(i) == IF i = 1 THEN VAdd(origin_tile, FaceVec[sorted[1].face])
                      ELSE VAdd(VAdd(origin_tile, FaceVec[sorted[1].face]),
                                FaceVec[sorted[2].face])
    IN [i \in 1..Len(sorted) |->
          [face |-> sorted[i].face, axis |-> sorted[i].axis, iface |-> sorted[i].iface,
           pos |-> sorted[i].pos, den |-> sorted[i].den,
           dist_sq_num |-> sorted[i].dist_sq_num, entered_tile |-> entered(i)]]

EnteredTiles(isects) == [i \in 1..Len(isects) |-> isects[i].entered_tile]

\* The loop of step_ray_tiles: the tiles handed to a callback that never
\* breaks.
RECURSIVE ray_steps(_, _, _)
ray_steps(origin, delta, length) ==
    IF length <= 0 THEN <<>>
    ELSE LET step_size == Min2(length, TileSize)
             step == <<FMul(delta[1], step_size), FMul(delta[2], step_size)>>
         IN EnteredTiles(step_ray(origin, step))
            \o ray_steps(VAdd(origin, step), delta, length - step_size)

\* A variant of step_ray_tiles that reports the tile of src first.
step_ray_tiles_from_src_tile(src, dst) ==
    LET d == <<dst[1] - src[1], dst[2] - src[2]>>
        length == Length(d)
    IN <<actor_to_tile(src)>>
       \o (IF length = 0 THEN <<>>
           ELSE ray_steps(src, <<FDiv(d[1], length), FDiv(d[2], length)>>, length))
       \o <<actor_to_tile(dst)>>

\* step_ray_tiles: the tiles handed to the callback, in order.  A ray of
\* length zero has a NaN direction and skips the loop.
step_ray_tiles(src, dst) ==
    LET d == <<dst[1] - src[1], dst[2] - src[2]>>
        length == Length(d)
    IN (IF length = 0 THEN <<>>
        ELSE ray_steps(src, <<FDiv(d[1], length), FDiv(d[2], length)>>, length))
       \o <<actor_to_tile(dst)>>

\* The loop of step_ray_tiles with a callback that may break.
RECURSIVE ray_steps_until(_, _, _, _)
ray_steps_until(origin, delta, length, cb) ==
    IF length <= 0 \/ cb.broke THEN cb
    ELSE Bind(Min2(length, TileSize), LAMBDA step_size :
         Bind(<<FMul(delta[1], step_size), FMul(delta[2], step_size)>>, LAMBDA step :
         Bind(Feed(cb, EnteredTiles(step_ray(origin, step)), 1), LAMBDA c :
              ray_steps_until(VAdd(origin, step), delta, length - step_size, c))))

\* step_ray_tiles: the loop, then the visit of the tile of dst unless the
\* callback broke.
step_ray_tiles_until(src, dst, cb) ==
    Bind(<<dst[1] - src[1], dst[2] - src[2]>>, LAMBDA d :
    Bind(Length(d), LAMBDA length :
    Bind(IF length = 0 THEN cb
         ELSE ray_steps_until(src, <<FDiv(d[1], length), FDiv(d[2], length)>>, length, cb),
         LAMBDA c : IF c.broke THEN c ELSE Invoke(c, actor_to_tile(dst)))))

\* f32 arithmetic on whole numbers.  An f32 has a significand of 24 bits:
\* every whole number below 2^24 in magnitude is a value, and a larger one
\* is a value when it is a multiple of its unit in the last place.
F32Significand == 16777216

RECURSIVE F32UlpFrom(_, _)
F32UlpFrom(a, u) == IF a \div u < F32Significand THEN u ELSE F32UlpFrom(a, 2 * u)

\* The unit in the last place of the f32 values around a >= 0.
F32Ulp(a) == F32UlpFrom(a, 1)

\* The f32 nearest to the whole number x, ties to the even significand:
\* the result of an f32 addition or subtraction whose exact result is x.
F32(x) ==
    LET a == Abs(x)
        u == F32Ulp(a)
        r == a % u
        lo == a - r
        up == IF 2 * r > u \/ (2 * r = u /\ (lo \div u) % 2 = 1) THEN lo + u ELSE lo
    IN IF x < 0 THEN -up ELSE up

F32Add(v, w) == <<F32(v[1] + w[1]), F32(v[2] + w[2])>>

F32Sub(v, w) == <<F32(v[1] - w[1]), F32(v[2] - w[2])>>

\* step_ray in f32 for a config whose tile size is a power of two (the
\* quotient value / size is then exact) and whole-number arguments: dest
\* is the rounded sum, the tile of origin and the tile of dest decide
\* which axes are crossed, and each entered tile is the one before it
\* moved by the face crossed.
F32_step_ray(size, origin, delta) ==
    LET origin_tile == TileLayerConfig_actor_to_tile(size, origin)
        dest == F32Add(origin, delta)
        crossed(axis) ==
            TileLayerConfig_actor_to_tile_axis(size, origin[axis])
                # TileLayerConfig_actor_to_tile_axis(size, dest[axis])
        face(axis) == Compose(axis, SignOfBiased(delta[axis]))
        found == (IF crossed(1) THEN <<1>> ELSE <<>>) \o (IF crossed(2) THEN <<2>> ELSE <<>>)
        sorted == IF Len(found) = 2
                     /\ DistLess(RayIntersection(size, origin, delta, 2),
                                 RayIntersection(size, origin, delta, 1))
                  THEN <<2, 1>> ELSE found
        entered(i) == IF i = 1 THEN VAdd(origin_tile, FaceVec[face(sorted[1])])
                      ELSE VAdd(VAdd(origin_tile, FaceVec[face(sorted[1])]),
                                FaceVec[face(sorted[2])])
    IN [i \in 1..Len(sorted) |-> [face |-> face(sorted[i]), entered_tile |-> entered(i)]]

\* step_ray_tiles up to its loop, for src and dst on a common axis line:
\* length is |dst - src| (the square root of a rounded square is the
\* magnitude), delta = (dst - src) / length has components 1, -1 and 0,
\* and is NaN (0 / 0) when the length is zero.
step_ray_tiles_begin(size, src, dst) ==
    LET d == F32Sub(dst, src)
        length == Length(d)
    IN [op |-> "walk", size |-> size, src |-> src, dst |-> dst,
        origin |-> src, length |-> length,
        is_nan |-> length = 0,
        delta |-> IF length = 0 THEN <<0, 0>> ELSE <<d[1] \div length, d[2] \div length>>,
        seen |-> <<>>, at |-> "loop"]

\* One iteration of the while loop of step_ray_tiles, the callback
\* continuing.
step_ray_tiles_iteration(walk) ==
    LET step_size == Min2(walk.length, walk.size)
        step == <<walk.delta[1] * step_size, walk.delta[2] * step_size>>
    IN [walk EXCEPT !.seen = @ \o EnteredTiles(F32_step_ray(walk.size, walk.origin, step)),
                    !.length = F32(@ - step_size),
                    !.origin = F32Add(@, step)]

\* The end of step_ray_tiles: f(self.actor_to_tile(dst)).
step_ray_tiles_end(walk) ==
    [walk EXCEPT !.seen = Append(@, TileLayerConfig_actor_to_tile(walk.size, walk.dst)),
                 !.at = "done"]

\* Value of last after a step that returns nothing to game logic.
NoCall == [op |-> "none"]

\* ------------------------------------------------------------------------
\* Spatial (game/spatial.rs)
\* ------------------------------------------------------------------------
\* Affine2 in one dimension: a transform <<a, b>> maps x to a * x + b, and
\* the product applies the right factor first.
IDENTITY == <<1, 0>>

AffineMul(p, l) == <<p[1] * l[1], p[1] * l[2] + p[2]>>

\* global_transform: None
NoTransform == <<>>

\* Spatial::from_xform
Spatial_from_xform(local_transform) ==
    [parent |-> NONE, children |-> <<>>, index_in_parent |-> 0,
     local_transform |-> local_transform, global_transform |-> NoTransform]

\* A variant of mark_dirty that drops the cached transform of the node
\* and leaves its children alone.
mark_dirty_self_only(sp, self) == [sp EXCEPT ![self].global_transform = NoTransform]

\* Spatial::mark_dirty: nothing for a node without cached transform;
\* otherwise the cache is dropped and the children are visited in order.
RECURSIVE mark_dirty(_, _)
RECURSIVE mark_dirty_children(_, _, _)
mark_dirty(sp, self) ==
    IF sp[self].global_transform = NoTransform THEN sp
    ELSE mark_dirty_children([sp EXCEPT ![self].global_transform = NoTransform], self, 1)

mark_dirty_children(sp, self, i) ==
    IF i > Len(sp[self].children) THEN sp
    ELSE Bind(mark_dirty(sp, sp[self].children[i]), LAMBDA next :
              mark_dirty_children(next, self, i + 1))

\* The first part of set_parent: the node leaves the children of its old
\* parent by swap_remove, and the child moved into its place learns its
\* new index.
Spatial_leave_parent(sp, self) ==
    IF sp[self].parent = NONE THEN sp
    ELSE Bind(sp[self].parent, LAMBDA old_parent :
         Bind(sp[self].index_in_parent, LAMBDA index :
         Bind([sp EXCEPT ![old_parent].children = SwapRemove(@, index)], LAMBDA removed :
              IF index < Len(removed[old_parent].children)
              THEN [removed EXCEPT ![removed[old_parent].children[index + 1]].index_in_parent = index]
              ELSE removed)))

\* The second part: the parent is stored and the node is pushed onto the
\* children of the new parent.
Spatial_join_parent(sp, self, new_parent) ==
    IF new_parent = NONE THEN [sp EXCEPT ![self].parent = NONE]
    ELSE Bind([sp EXCEPT ![self].parent = new_parent,
                         ![self].index_in_parent = Len(sp[new_parent].children)],
              LAMBDA stored : [stored EXCEPT ![new_parent].children = Append(@, self)])

\* Spatial::set_parent
Spatial_set_parent(sp, self, new_parent) ==
    Bind(Spatial_leave_parent(sp, self), LAMBDA left :
    Bind(Spatial_join_parent(left, self, new_parent), LAMBDA joined :
         mark_dirty(joined, self)))

\* Spatial::set_local_transform and Spatial::set_local_pos
Spatial_set_local_transform(sp, self, transform) ==
    mark_dirty([sp EXCEPT ![self].local_transform = transform], self)

Spatial_set_local_pos(sp, self, pos) ==
    mark_dirty([sp EXCEPT ![self].local_transform[2] = pos], self)

\* Spatial::global_transform: the cached value, or the parent's global
\* transform times the local one, which is then cached.
RECURSIVE Spatial_global_transform(_, _)
Spatial_global_transform(sp, self) ==
    IF sp[self].global_transform # NoTransform
    THEN [sp |-> sp, ret |-> sp[self].global_transform]
    ELSE Bind(IF sp[self].parent = NONE THEN [sp |-> sp, ret |-> IDENTITY]
              ELSE Spatial_global_transform(sp, sp[self].parent), LAMBDA parent :
         Bind(AffineMul(parent.ret, parent.sp[self].local_transform), LAMBDA my_transform :
              [sp |-> [parent.sp EXCEPT ![self].global_transform = my_transform],
               ret |-> my_transform]))

SpatialCached(sp) == {s \in DOMAIN sp : sp[s].global_transform # NoTransform}

\* ------------------------------------------------------------------------
\* ColliderListens (game/actor/kinematic.rs)
\* ------------------------------------------------------------------------
\* ColliderListens::default() on every entity, no event sent.
NoListen ==
    [contains |-> [e \in Entities |-> {}],
     sent |-> <<>>,
     kind |-> [p \in Entities \X Entities |-> "none"]]

ColliderEvent(listener, other, entered) ==
    [listener |-> listener, other |-> other, entered |-> entered]

\* A variant of the loop over the collisions that sends an entered event
\* for every collider found, whether it was contained before or not.
RECURSIVE listen_visit_enter_always(_, _, _, _)
listen_visit_enter_always(st, listener, pairs, i) ==
    IF i > Len(pairs) THEN st
    ELSE Bind(pairs[i][1], LAMBDA other :
         IF listener = other THEN listen_visit_enter_always(st, listener, pairs, i + 1)
         ELSE listen_visit_enter_always(
                  [contains |-> st.contains \cup {other},
                   removed |-> st.removed \ {other},
                   sent |-> Append(st.sent, ColliderEvent(listener, other, TRUE))],
                  listener, pairs, i + 1))

\* The loop over world.collisions(aabb) of one listener: the listener
\* itself is skipped, every other collider is inserted into contains, and
\* an entered event is sent unless the collider could be taken out of
\* removed.
RECURSIVE listen_visit(_, _, _, _)
listen_visit(st, listener, pairs, i) ==
    IF i > Len(pairs) THEN st
    ELSE Bind(pairs[i][1], LAMBDA other :
         IF listener = other THEN listen_visit(st, listener, pairs, i + 1)
         ELSE listen_visit(
                  [contains |-> st.contains \cup {other},
                   removed |-> st.removed \ {other},
                   sent |-> IF other \in st.removed THEN st.sent
                            ELSE Append(st.sent, ColliderEvent(listener, other, TRUE))],
                  listener, pairs, i + 1))

\* for other in removed.drain(): an exited event for what is left.  The
\* set is drained in the hasher's order; the model drains it in ascending
\* order.
RECURSIVE listen_exits(_, _, _)
listen_exits(sent, listener, removed) ==
    IF removed = {} THEN sent
    ELSE Bind(CHOOSE x \in removed : \A y \in removed : x <= y, LAMBDA other :
         listen_exits(Append(sent, ColliderEvent(listener, other, FALSE)),
                      listener, removed \ {other}))

\* Body of the loop of sys_update_listening_colliders for one listener:
\* x holds the world and the listening state.
update_listener(x, listener, aabb) ==
    Bind(collisions(x.w, aabb), LAMBDA r :
    Bind(listen_visit([contains |-> {}, removed |-> x.listen.contains[listener],
                       sent |-> x.listen.sent], listener, r.ret, 1), LAMBDA st :
         [w |-> r.w,
          listen |-> [x.listen EXCEPT !.contains[listener] = st.contains,
                                      !.sent = listen_exits(st.sent, listener, st.removed)]]))

\* History: the kind of the last event of each pair after a sequence of
\* events.
RECURSIVE LastKinds(_, _, _)
LastKinds(kind, sent, i) ==
    IF i > Len(sent) THEN kind
    ELSE LastKinds([kind EXCEPT ![<<sent[i].listener, sent[i].other>>] =
                        IF sent[i].entered THEN "entered" ELSE "exited"], sent, i + 1)

\* ------------------------------------------------------------------------
\* Initial state: an empty world, no collider entity spawned yet
\* ------------------------------------------------------------------------
InitWorld ==
    /\ pc = "update"
    /\ chunks = <<>>
    /\ objs = <<>>
    /\ events = <<>>
    /\ evCursor = 0
    /\ removedCh = {}
    /\ unlinkCh = {}
    /\ cchunks = <<>>
    /\ collider = [e \in Entities |-> [state |-> "none", aabb |-> NoBox]]
    /\ added = {}
    /\ changed = {}
    /\ tracked = [e \in Entities |-> NoTracked]
    /\ removedTC = {}
    /\ unlinkTC = {}
    /\ reg = [e \in Entities |-> NoBox]
    /\ written = <<>>
    /\ listen = NoListen
    /\ spatials = <<>>
    /\ hasher = "ascending"
    /\ cache = <<>>
    /\ last = NoCall

\* The registry is the one sys_create_local_player builds.
Init == InitWorld /\ registry = PlayerRegistry

\* The scan scene starts from a new registry.
InitScan == InitWorld /\ registry = EmptyRegistry

\* A registry on its own: a new one, or one in which all ids but the last
\* two were handed out to materials of other names than those registered
\* in the behaviour.
InitRegistry == InitWorld /\ registry \in {EmptyRegistry, NearlyFullRegistry}

\* Writes the threaded state back to the variables.
Commit(w) ==
    /\ chunks' = w.chunks
    /\ objs' = w.objs
    /\ events' = w.events
    /\ cchunks' = w.cchunks
    /\ tracked' = w.tracked
    /\ reg' = w.reg
    /\ cache' = w.cache

frameVars == <<evCursor, removedCh, unlinkCh, collider, added, changed, removedTC, unlinkTC>>

fixedVars == <<frameVars, written, registry, listen, spatials, hasher>>

\* ------------------------------------------------------------------------
\* Calls made by game logic during the update
\* ------------------------------------------------------------------------
ChunkOrCreate(c) ==
    /\ pc = "update"
    /\ LET r == chunk_or_create(World, c)
       IN /\ Len(r.w.objs) <= Max2(Len(objs), MaxChunks)
          /\ Commit(r.w)
          /\ last' = [op |-> "chunk_or_create", pos |-> c, ret |-> r.ret,
                      sent |-> Len(r.w.events) - Len(events)]
    /\ UNCHANGED <<pc, fixedVars>>

SetTile(p, m) ==
    /\ pc = "update"
    /\ LET w == set_tile(World, p, m)
       IN /\ Len(w.objs) <= Max2(Len(objs), MaxChunks)
          /\ Commit(w)
          /\ last' = NoCall
    /\ written' = MapInsert(written, p, m)
    /\ UNCHANGED <<pc, frameVars, registry, listen, spatials, hasher>>

Tile(p) ==
    /\ pc = "update"
    /\ LET r == tile(World, p)
       IN /\ Commit(r.w)
          /\ last' = [op |-> "tile", pos |-> p, ret |-> r.ret]
    /\ UNCHANGED <<pc, fixedVars>>

\* The chunk entity is despawned: its ObjOwner components are removed and
\* the removal is queued for every RemovedComponents reader.
DespawnChunk(c) ==
    /\ pc = "update"
    /\ c \in DOMAIN objs
    /\ objs[c].entity
    /\ objs' = [objs EXCEPT ![c].entity = FALSE]
    /\ removedCh' = removedCh \cup {c}
    /\ unlinkCh' = unlinkCh \cup {c}
    /\ last' = NoCall
    /\ UNCHANGED <<pc, chunks, events, evCursor, cchunks, colliderVars, written, listen, spatials, hasher, cache, registry>>

\* An entity is spawned with a Collider component.
SpawnCollider(e, aabb) ==
    /\ pc = "update"
    /\ collider[e].state = "none"
    /\ \A d \in Entities : d < e => collider[d].state # "none"
    /\ collider' = [collider EXCEPT ![e] = [state |-> "alive", aabb |-> aabb]]
    /\ added' = added \cup {e}
    /\ changed' = changed \cup {e}
    /\ last' = NoCall
    /\ UNCHANGED <<pc, worldVars, evCursor, removedCh, unlinkCh, tracked,
                   removedTC, unlinkTC, reg, written, listen, spatials, hasher, cache, registry>>

\* Game logic writes the Collider component of a live entity.
SetCollider(e, aabb) ==
    /\ pc = "update"
    /\ collider[e].state = "alive"
    /\ collider[e].aabb # aabb
    /\ collider' = [collider EXCEPT ![e].aabb = aabb]
    /\ changed' = changed \cup {e}
    /\ last' = NoCall
    /\ UNCHANGED <<pc, worldVars, evCursor, removedCh, unlinkCh, added, tracked,
                   removedTC, unlinkTC, reg, written, listen, spatials, hasher, cache, registry>>

\* RandomEntityExt::remove::<TrackedCollider> on a live entity: the owner
\* component goes and the removal is queued, the Collider component stays.
DetachCollider(e) ==
    /\ pc = "update"
    /\ collider[e].state = "alive"
    /\ tracked[e].present
    /\ collider' = [collider EXCEPT ![e].state = "detached"]
    /\ changed' = changed \ {e}
    /\ removedTC' = removedTC \cup {e}
    /\ unlinkTC' = unlinkTC \cup {e}
    /\ last' = NoCall
    /\ UNCHANGED <<pc, worldVars, evCursor, removedCh, unlinkCh, added, tracked, reg, written, listen, spatials, hasher,
                   cache, registry>>

\* The collider entity is despawned.
DespawnCollider(e) ==
    /\ pc = "update"
    /\ collider[e].state = "alive"
    /\ collider' = [collider EXCEPT ![e] = [state |-> "dead", aabb |-> NoBox]]
    /\ added' = added \ {e}
    /\ changed' = changed \ {e}
    /\ removedTC' = IF tracked[e].present THEN removedTC \cup {e} ELSE removedTC
    /\ unlinkTC' = IF tracked[e].present THEN unlinkTC \cup {e} ELSE unlinkTC
    /\ last' = NoCall
    /\ UNCHANGED <<pc, worldVars, evCursor, removedCh, unlinkCh, tracked, reg, written, listen, spatials, hasher,
                   cache, registry>>

Collisions(q) ==
    /\ pc = "update"
    /\ LET r == collisions(World, q)
       IN /\ Len(r.w.objs) <= Max2(Len(objs), MaxChunks)
          /\ Commit(r.w)
          /\ last' = [op |-> "collisions", aabb |-> q, ret |-> r.ret,
                      sent |-> Len(r.w.events) - Len(events)]
    /\ UNCHANGED <<pc, fixedVars>>

\* sys_update_moving_colliders for one moving entity: it runs after the
\* controls and before the systems that maintain the collider index.  A
\* panic inside the call ends the program.
MoveBy(aabb, by, filter) ==
    /\ pc = "update"
    /\ \E r \in {move_by(World, aabb, by, filter)} :
          /\ Len(r.w.objs) <= Max2(Len(objs), MaxSceneChunks)
          /\ Commit(r.w)
          /\ pc' = IF r.w.panic THEN "panicked" ELSE "moved"
          /\ last' = [op |-> "move_by", aabb |-> aabb, by |-> by, filter |-> filter,
                      ret |-> r.ret, panicked |-> r.w.panic]
    /\ UNCHANGED fixedVars

\* The next call of move_by for the mover of the last call: the box is the
\* one sys_update_moving_colliders stored, the box of the last call moved
\* by the displacement it returned.
MoveByNext(by) ==
    /\ pc = "moved"
    /\ last.op = "move_by"
    /\ \E r \in {move_by(World, Translated(last.aabb, last.ret), by, last.filter)} :
          /\ Len(r.w.objs) <= Max2(Len(objs), MaxSceneChunks)
          /\ Commit(r.w)
          /\ pc' = IF r.w.panic THEN "panicked" ELSE "moved"
          /\ last' = [op |-> "move_by_next", first |-> last,
                      aabb |-> Translated(last.aabb, last.ret), by |-> by,
                      filter |-> last.filter, ret |-> r.ret, panicked |-> r.w.panic]
    /\ UNCHANGED fixedVars

\* The body of sys_update_moving_colliders for one moving entity whose
\* collider is the 40 x 40 box around its position: move_by with the
\* velocity, the collider moved by the displacement returned, and
\* get_clip_mask of the moved collider with the same velocity and filter.
MoveByAndClip(aabb, by, filter) ==
    /\ pc = "update"
    /\ \E r \in {move_by(World, aabb, by, filter)} :
       \E m \in {IF r.w.panic THEN [w |-> r.w, ret |-> <<FALSE, FALSE>>]
                  ELSE get_clip_mask(r.w, Translated(aabb, r.ret), by, filter)} :
          /\ Len(m.w.objs) <= Max2(Len(objs), MaxSceneChunks)
          /\ Commit(m.w)
          /\ pc' = IF m.w.panic THEN "panicked" ELSE "moved"
          /\ last' = [op |-> "move_by_and_clip", aabb |-> aabb, by |-> by,
                      filter |-> filter, ret |-> r.ret, mask |-> m.ret,
                      panicked |-> m.w.panic]
    /\ UNCHANGED fixedVars

\* The Spatial hierarchy: nodes are created, re-parented, given local
\* transforms and positions, and asked for their global transform.  The
\* hierarchy is kept acyclic by the callers: a node is given a parent that
\* was created before it, or none.
NewSpatial(local_transform) ==
    /\ pc = "update"
    /\ Len(spatials) < MaxSpatials
    /\ spatials' = Append(spatials, Spatial_from_xform(local_transform))
    /\ last' = NoCall
    /\ UNCHANGED <<pc, worldVars, tracked, reg, cache, frameVars, written, registry,
                   listen, hasher>>

SetParent(self, new_parent) ==
    /\ pc = "update"
    /\ self \in DOMAIN spatials
    /\ new_parent \in DOMAIN spatials \cup {NONE}
    /\ new_parent < self
    /\ spatials' = Spatial_set_parent(spatials, self, new_parent)
    /\ last' = NoCall
    /\ UNCHANGED <<pc, worldVars, tracked, reg, cache, frameVars, written, registry,
                   listen, hasher>>

SetLocalTransform(self, transform) ==
    /\ pc = "update"
    /\ self \in DOMAIN spatials
    /\ spatials' = Spatial_set_local_transform(spatials, self, transform)
    /\ last' = [op |-> "set_local_transform", self |-> self,
                dirtied |-> SpatialCached(spatials) \ SpatialCached(spatials')]
    /\ UNCHANGED <<pc, worldVars, tracked, reg, cache, frameVars, written, registry,
                   listen, hasher>>

SetLocalPos(self, pos) ==
    /\ pc = "update"
    /\ self \in DOMAIN spatials
    /\ spatials' = Spatial_set_local_pos(spatials, self, pos)
    /\ last' = NoCall
    /\ UNCHANGED <<pc, worldVars, tracked, reg, cache, frameVars, written, registry,
                   listen, hasher>>

GlobalTransform(self) ==
    /\ pc = "update"
    /\ self \in DOMAIN spatials
    /\ \E r \in {Spatial_global_transform(spatials, self)} :
          /\ spatials' = r.sp
          /\ last' = [op |-> "global_transform", self |-> self, ret |-> r.ret]
    /\ UNCHANGED <<pc, worldVars, tracked, reg, cache, frameVars, written, registry,
                   listen, hasher>>

\* The other calls of the resolver game logic makes in the update: the
\* clip mask sys_update_moving_colliders asks for, the placement test of
\* the player and a scan with a callback that may break.
GetClipMask(aabb, by, filter) ==
    /\ pc = "update"
    /\ \E r \in {get_clip_mask(World, aabb, by, filter)} :
          /\ Len(r.w.objs) <= Max2(Len(objs), MaxSceneChunks)
          /\ Commit(r.w)
          /\ pc' = IF r.w.panic THEN "panicked" ELSE "moved"
          /\ last' = [op |-> "get_clip_mask", aabb |-> aabb, by |-> by, filter |-> filter,
                      ret |-> r.ret, panicked |-> r.w.panic]
    /\ UNCHANGED fixedVars

\* Another collisions call finds its set of chunk coordinates in another
\* iteration order.
Rehash ==
    /\ pc = "update"
    /\ hasher' = IF hasher = "ascending" THEN "descending" ELSE "ascending"
    /\ last' = NoCall
    /\ UNCHANGED <<pc, worldVars, tracked, reg, cache, frameVars, written, registry,
                   listen, spatials>>

HasCollidersIn(aabb, filter) ==
    /\ pc = "update"
    /\ \E r \in {has_colliders_in(World, aabb, filter)} :
          /\ Len(r.w.objs) <= Max2(Len(objs), MaxSceneChunks)
          /\ Commit(r.w)
          /\ pc' = IF r.w.panic THEN "panicked" ELSE "moved"
          /\ last' = [op |-> "has_colliders_in", aabb |-> aabb, filter |-> filter,
                      ret |-> r.ret, panicked |-> r.w.panic]
    /\ UNCHANGED fixedVars

IterCollidersIn(aabb, filter, after) ==
    /\ pc = "update"
    /\ \E r \in {iter_colliders_in_until(World, aabb, Callback(filter, after))} :
          /\ Len(r.w.objs) <= Max2(Len(objs), MaxSceneChunks)
          /\ Commit(r.w)
          /\ pc' = IF r.w.panic THEN "panicked" ELSE "moved"
          /\ last' = [op |-> "iter_colliders_in", aabb |-> aabb, filter |-> filter,
                      after |-> after, seen |-> r.cb.seen, broke |-> r.cb.broke,
                      panicked |-> r.w.panic]
    /\ UNCHANGED fixedVars

\* A query of the index and a ray walk with callbacks that may break.
CollisionsUntil(q, after) ==
    /\ pc = "update"
    /\ \E r \in {collisions_until(World, q, Callback("any", after))} :
          /\ Len(r.w.objs) <= Max2(Len(objs), MaxChunks)
          /\ Commit(r.w)
          /\ last' = [op |-> "collisions_until", aabb |-> q, filter |-> "any",
                      after |-> after, seen |-> r.cb.seen, broke |-> r.cb.broke]
    /\ pc' = "moved"
    /\ UNCHANGED fixedVars

StepRayTilesUntil(src, dst, after) ==
    /\ pc = "update"
    /\ \E cb \in {step_ray_tiles_until(src, dst, Callback("any", after))} :
          last' = [op |-> "step_ray_tiles_until", src |-> src, dst |-> dst, filter |-> "any",
                   after |-> after, seen |-> cb.seen, broke |-> cb.broke]
    /\ pc' = "moved"
    /\ UNCHANGED <<worldVars, frameVars, tracked, reg, written, listen, spatials, hasher, cache, registry>>

\* Coordinate conversions of a config with some tile size, and ray
\* stepping with the config of the game: one call of a behaviour.
ActorToTile(size, pos) ==
    /\ pc = "update"
    /\ last = NoCall
    /\ last' = [op |-> "actor_to_tile", size |-> size, pos |-> pos,
                ret |-> TileLayerConfig_actor_to_tile(size, pos),
                rect |-> TileLayerConfig_tile_to_actor_rect(
                             size, TileLayerConfig_actor_to_tile(size, pos))]
    /\ UNCHANGED <<pc, worldVars, frameVars, tracked, reg, written, listen, spatials, hasher, cache, registry>>

StepRay(size, origin, delta) ==
    /\ pc = "update"
    /\ last = NoCall
    /\ last' = [op |-> "step_ray", size |-> size, origin |-> origin, delta |-> delta,
                ret |-> TileLayerConfig_step_ray(size, origin, delta)]
    /\ UNCHANGED <<pc, worldVars, frameVars, tracked, reg, written, listen, spatials, hasher, cache, registry>>

\* step_ray_tiles with a callback that never breaks, one step per loop
\* iteration: the call, an iteration of while length > 0., and the visit
\* of the tile of dst after the loop.
WalkBegin(size, src, dst) ==
    /\ pc = "update"
    /\ last = NoCall
    /\ last' = step_ray_tiles_begin(size, src, dst)
    /\ UNCHANGED <<pc, worldVars, frameVars, tracked, reg, written, listen, spatials, hasher, cache, registry>>

WalkIterate ==
    /\ pc = "update"
    /\ last.op = "walk"
    /\ last.at = "loop"
    /\ ~last.is_nan
    /\ last.length > 0
    /\ last' = step_ray_tiles_iteration(last)
    /\ UNCHANGED <<pc, worldVars, frameVars, tracked, reg, written, listen, spatials, hasher, cache, registry>>

WalkEnd ==
    /\ pc = "update"
    /\ last.op = "walk"
    /\ last.at = "loop"
    /\ last.is_nan \/ last.length <= 0
    /\ last' = step_ray_tiles_end(last)
    /\ UNCHANGED <<pc, worldVars, frameVars, tracked, reg, written, listen, spatials, hasher, cache, registry>>

DecomposeWorldPos(t) ==
    /\ pc = "update"
    /\ last = NoCall
    /\ last' = [op |-> "decompose_world_pos", pos |-> t,
                chunk |-> decompose_world_pos(t).chunk,
                local |-> decompose_world_pos(t).block,
                index |-> to_tile_index(decompose_world_pos(t).block)]
    /\ UNCHANGED <<pc, worldVars, frameVars, tracked, reg, written, listen, spatials, hasher, cache, registry>>

StepRayTiles(src, dst) ==
    /\ pc = "update"
    /\ last = NoCall
    /\ last' = [op |-> "step_ray_tiles", src |-> src, dst |-> dst,
                ret |-> step_ray_tiles(src, dst)]
    /\ UNCHANGED <<pc, worldVars, frameVars, tracked, reg, written, listen, spatials, hasher, cache, registry>>

\* Game logic registers a material.
Register(name, entity) ==
    /\ pc = "update"
    /\ LET r == MaterialRegistry_register(registry, name, entity)
       IN /\ registry' = r.r
          /\ last' = [op |-> "register", name |-> name, k |-> registry.len, ret |-> r.ret]
    /\ UNCHANGED <<pc, worldVars, frameVars, tracked, reg, written, listen, spatials, hasher, cache>>

\* The resolver asks its cache for the descriptor of a registered
\* material.  The record of the call holds the cache before the call, the
\* number of consecutive calls so far, and the ids for which one of them
\* returned None.
CacheGet(id) ==
    /\ pc = "update"
    /\ id < registry.len
    /\ (last.op = "cache_get") => last.n < MaxCacheGets
    /\ \E r \in {MaterialCacheGet(World, id)} :
          /\ Commit(r.w)
          /\ last' = [op |-> "cache_get", id |-> id, ret |-> r.ret, lookups |-> r.lookups,
                      before |-> cache,
                      n |-> IF last.op = "cache_get" THEN last.n + 1 ELSE 1,
                      missed |-> (IF last.op = "cache_get" THEN last.missed ELSE {})
                                 \cup (IF r.ret = NONE THEN {id} ELSE {})]
    /\ UNCHANGED <<pc, fixedVars>>

LookupByName(name) ==
    /\ pc = "update"
    /\ last' = [op |-> "lookup_by_name", name |-> name, ret |-> lookup_by_name(registry, name)]
    /\ UNCHANGED <<pc, worldVars, frameVars, tracked, reg, written, listen, spatials, hasher, cache, registry>>

\* ------------------------------------------------------------------------
\* The systems of one frame, in schedule order
\* ------------------------------------------------------------------------
\* A frame order in which the arena unlinker runs before the system that
\* removes despawned chunks from their world.
NextSystemUnlinkFirst(p) ==
    CASE p = "update" -> "add"
      [] p = "moved" -> "add"
      [] p = "add" -> "move"
      [] p = "move" -> "remove"
      [] p = "remove" -> "unlink"
      [] p = "unlink" -> "unregister"
      [] p = "unregister" -> "update"

\* A frame order in which the arena unlinker runs before
\* sys_remove_collider.
NextSystemUnlinkBeforeRemove(p) ==
    CASE p = "update" -> "add"
      [] p = "moved" -> "add"
      [] p = "add" -> "move"
      [] p = "move" -> "unlink"
      [] p = "unlink" -> "remove"
      [] p = "remove" -> "unregister"
      [] p = "unregister" -> "update"

\* The step that follows step p: game logic, sys_update_moving_colliders
\* ("moved" once it ran) and sys_add_collider_to_chunk,
\* sys_add_collider, sys_move_colliders, sys_remove_collider,
\* sys_unregister_chunk_from_world, and the unlinker schedule last.
NextSystem(p) ==
    CASE p = "update" -> "add"
      [] p = "moved" -> "add"
      [] p = "add" -> "move"
      [] p = "move" -> "remove"
      [] p = "remove" -> "unregister"
      [] p = "unregister" -> "unlink"
      [] p = "unlink" -> "update"

\* Queries are iterated in ascending entity order.
MinOf(S) == CHOOSE x \in S : \A y \in S : x <= y

RECURSIVE insert_collider_chunks(_, _)
insert_collider_chunks(w, i) ==
    IF i > Len(w.events) THEN w
    ELSE insert_collider_chunks(get_collider_chunk_or_insert(w, w.events[i]), i + 1)

RECURSIVE add_colliders(_, _)
add_colliders(w, todo) ==
    IF todo = {} THEN w
    ELSE LET e == MinOf(todo)
         IN add_colliders(add_collider(w, e, collider[e].aabb), todo \ {e})

\* The loop of sys_move_colliders.  Reading tracked.chunk.config
\* dereferences the chunk handle and panics when its arena slot was freed.
RECURSIVE move_colliders(_, _)
move_colliders(w, todo) ==
    IF todo = {} THEN w
    ELSE LET e == MinOf(todo)
         IN IF ~w.cchunks[w.tracked[e].chunk].present
            THEN [w EXCEPT !.panic = TRUE]
            ELSE move_colliders(move_collider(w, e, collider[e].aabb), todo \ {e})

\* The loop of sys_remove_collider.  Entity::get and the dereference of
\* the chunk handle panic when the arena slot was freed.
RECURSIVE remove_colliders(_, _)
remove_colliders(w, todo) ==
    IF todo = {} THEN w
    ELSE LET e == MinOf(todo)
         IN IF ~w.tracked[e].present \/ ~w.cchunks[w.tracked[e].chunk].present
            THEN [w EXCEPT !.panic = TRUE]
            ELSE remove_colliders(unregister(w, w.tracked[e].chunk, e), todo \ {e})

RECURSIVE unregister_chunks(_, _)
unregister_chunks(w, todo) ==
    IF todo = {} THEN w
    ELSE LET c == MinOf(todo)
         IN unregister_chunks(remove_from_world(w, c), todo \ {c})

\* The loop of sys_update_listening_colliders over the entities that have
\* a Collider and a ColliderListens component, in ascending order.
RECURSIVE update_listeners(_, _)
update_listeners(x, todo) ==
    IF todo = {} THEN x
    ELSE Bind(CHOOSE e \in todo : \A d \in todo : e <= d, LAMBDA e :
         Bind(update_listener(x, e, collider[e].aabb), LAMBDA y :
              update_listeners(y, todo \ {e})))

Listeners == {e \in Entities : collider[e].state \in {"alive", "detached"}}

\* sys_update_listening_colliders runs in the update chain after
\* sys_update_moving_colliders and before the systems of the index.
sys_update_listening_colliders ==
    /\ pc = "update"
    /\ pc' = "moved"
    /\ \E x \in {update_listeners([w |-> World, listen |-> [listen EXCEPT !.sent = <<>>]],
                                   Listeners)} :
          /\ Len(x.w.objs) <= Max2(Len(objs), MaxSceneChunks)
          /\ Commit(x.w)
          /\ listen' = [x.listen EXCEPT !.kind = LastKinds(listen.kind, x.listen.sent, 1)]
    /\ last' = NoCall
    /\ UNCHANGED <<frameVars, written, registry, spatials, hasher>>

sys_add_collider_to_chunk ==
    /\ pc \in {"update", "moved"}
    /\ pc' = NextSystem(pc)
    /\ Commit(insert_collider_chunks(World, evCursor + 1))
    /\ evCursor' = Len(events)
    /\ UNCHANGED <<removedCh, unlinkCh, collider, added, changed, removedTC, unlinkTC, written, listen, spatials, hasher, registry>>
    /\ last' = NoCall

sys_add_collider ==
    /\ pc = "add"
    /\ pc' = NextSystem("add")
    /\ LET w == add_colliders(World, added)
       IN /\ Len(w.objs) <= Max2(Len(objs), MaxSceneChunks)
          /\ Commit(w)
    /\ added' = {}
    /\ UNCHANGED <<evCursor, removedCh, unlinkCh, collider, changed, removedTC, unlinkTC, written, listen, spatials, hasher, registry>>
    /\ last' = NoCall

sys_move_colliders ==
    /\ pc = "move"
    /\ \E w \in {move_colliders(World, {e \in changed : tracked[e].present})} :
          /\ Len(w.objs) <= Max2(Len(objs), MaxSceneChunks)
          /\ pc' = IF w.panic THEN "panicked" ELSE NextSystem("move")
          /\ Commit(w)
    /\ changed' = {}
    /\ UNCHANGED <<evCursor, removedCh, unlinkCh, collider, added, removedTC, unlinkTC, written, listen, spatials, hasher, registry>>
    /\ last' = NoCall

sys_remove_collider ==
    /\ pc = "remove"
    /\ \E w \in {remove_colliders(World, removedTC)} :
          /\ pc' = IF w.panic THEN "panicked" ELSE NextSystem("remove")
          /\ Commit(w)
    /\ removedTC' = {}
    /\ UNCHANGED <<evCursor, removedCh, unlinkCh, collider, added, changed, unlinkTC, written, listen, spatials, hasher, registry>>
    /\ last' = NoCall

sys_unregister_chunk_from_world ==
    /\ pc = "unregister"
    /\ pc' = NextSystem("unregister")
    /\ Commit(unregister_chunks(World, removedCh))
    /\ removedCh' = {}
    /\ UNCHANGED <<evCursor, unlinkCh, collider, added, changed, removedTC, unlinkTC, written, listen, spatials, hasher, registry>>
    /\ last' = NoCall

\* make_unlinker_system for TileChunk, TrackedColliderChunk and
\* TrackedCollider: the arena slots of the removed owners are freed.
unlinker ==
    /\ pc = "unlink"
    /\ pc' = NextSystem("unlink")
    /\ objs' = [c \in DOMAIN objs |->
                  IF c \in unlinkCh THEN [objs[c] EXCEPT !.live = FALSE] ELSE objs[c]]
    /\ cchunks' = [c \in DOMAIN cchunks |->
                     IF c \in unlinkCh THEN NoColliderChunk ELSE cchunks[c]]
    /\ tracked' = [e \in Entities |-> IF e \in unlinkTC THEN NoTracked ELSE tracked[e]]
    /\ unlinkCh' = {}
    /\ unlinkTC' = {}
    /\ UNCHANGED <<chunks, events, evCursor, removedCh, collider, added, changed,
                   removedTC, reg, written, listen, spatials, hasher, cache, registry>>
    /\ last' = NoCall

Systems ==
    \/ sys_add_collider_to_chunk
    \/ sys_add_collider
    \/ sys_move_colliders
    \/ sys_remove_collider
    \/ sys_unregister_chunk_from_world
    \/ unlinker

\* ------------------------------------------------------------------------
\* Specifications
\* ------------------------------------------------------------------------
\* The chunk graph: chunks are created by game logic, by tile writes and by
\* collider queries, their entities are despawned, and the systems of the
\* frame remove them from the world.
Next ==
    \/ \E c \in ChunkCoords : ChunkOrCreate(c)
    \/ \E q \in QueryBoxes : Collisions(q)
    \/ \E p \in {<<-1, -1>>} : SetTile(p, 1)
    \/ \E c \in 1..MaxChunks : DespawnChunk(c)
    \/ Systems

Spec == Init /\ [][Next]_vars

\* Tile storage: tiles are written and read back.
NextTiles ==
    \/ \E p \in TilePositions, m \in Materials : SetTile(p, m)
    \/ \E p \in TilePositions : Tile(p)

SpecTiles == Init /\ [][NextTiles]_vars

\* The dynamic collider index: collider entities come, move and go, and
\* game logic queries the index.
NextIndex ==
    \/ \E e \in Entities, b \in ColliderBoxes : SpawnCollider(e, b)
    \/ \E e \in Entities, b \in ColliderBoxes : SetCollider(e, b)
    \/ \E e \in Entities : DespawnCollider(e)
    \/ \E q \in QueryBoxes : Collisions(q)
    \/ Systems

SpecIndex == Init /\ [][NextIndex]_vars

\* Relocation in the index: colliders come and move within their chunk and
\* between chunks; nothing else creates a chunk, and no collider goes.
NextRelocate ==
    \/ \E e \in Entities, b \in ColliderBoxes : SpawnCollider(e, b)
    \/ \E e \in Entities, b \in ColliderBoxes : SetCollider(e, b)
    \/ Systems

SpecRelocate == Init /\ [][NextRelocate]_vars

\* Listening colliders: colliders come and go and the first one moves; in
\* every frame the listening system runs once, before the systems of the
\* index.
NextListen ==
    \/ \E e \in Entities, b \in ListenBoxes : SpawnCollider(e, b)
    \/ \E b \in ListenBoxes : SetCollider(1, b)
    \/ \E e \in Entities : DespawnCollider(e)
    \/ sys_update_listening_colliders
    \/ pc # "update" /\ Systems

SpecListen == Init /\ [][NextListen]_vars

\* Removal from the index: colliders come, move, are despawned or lose
\* their tracked collider, and game logic queries the index.
NextRemoval ==
    \/ \E e \in Entities, b \in RemovalBoxes : SpawnCollider(e, b)
    \/ \E e \in Entities, b \in RemovalBoxes : SetCollider(e, b)
    \/ \E e \in Entities : DespawnCollider(e)
    \/ \E e \in Entities : DetachCollider(e)
    \/ \E q \in RemovalQueries : Collisions(q)
    \/ Systems

SpecRemoval == Init /\ [][NextRemoval]_vars

\* Unloading: chunk entities are despawned while colliders are indexed in
\* their chunks, and the colliders move or are despawned afterwards.
NextUnload ==
    \/ \E e \in Entities : SpawnCollider(e, UnloadBox)
    \/ \E e \in Entities, b \in RemovalBoxes : SetCollider(e, b)
    \/ \E e \in Entities : DespawnCollider(e)
    \/ DespawnChunk(1)
    \/ Systems

SpecUnload == Init /\ [][NextUnload]_vars

\* The kinematic resolver: solid tiles are placed, a crate is spawned and
\* indexed by the systems, and game logic moves boxes through the scene.
NextMove ==
    \/ \E p \in SceneTiles : SetTile(p, 1)
    \/ \E b \in SceneColliders : SpawnCollider(1, b)
    \/ \E m \in MoverBoxes, by \in Displacements, f \in Filters : MoveBy(m, by, f)
    \/ Systems

SpecMove == Init /\ [][NextMove]_vars

\* Tile shapes: game logic registers a material whose shape is a ledge
\* shifted inside its tile, writes tiles of registered and of not yet
\* registered materials, and moves boxes against them.
NextShapes ==
    \/ registry.len < MaxMaterials /\ \E m \in ShapeRegistrations : Register(m[1], m[2])
    \/ \E p \in ShapeTiles, m \in ShapeMaterials : SetTile(p, m)
    \/ \E m \in ShapeMovers, by \in ShapeDisplacements : MoveBy(m, by, "tiles")
    \/ Systems

SpecShapes == Init /\ [][NextShapes]_vars

\* Sliding: a box is moved against the floor or the wall and then moved
\* again, along the blocker or away from it.
NextSlide ==
    \/ \E p \in SceneTiles : SetTile(p, 1)
    \/ \E m \in MoverBoxes, by \in Approaches : MoveBy(m, by, "tiles")
    \/ \E by \in Slides : MoveByNext(by)
    \/ Systems

SpecSlide == Init /\ [][NextSlide]_vars

\* Clipping the velocity: in the scene of the kinematic resolver movers are
\* moved and their velocity is masked, as sys_update_moving_colliders does.
NextClip ==
    \/ \E p \in SceneTiles : SetTile(p, 1)
    \/ \E b \in SceneColliders : SpawnCollider(1, b)
    \/ \E m \in MoverBoxes, by \in ClipVelocities, f \in Filters : MoveByAndClip(m, by, f)
    \/ Systems

SpecClip == Init /\ [][NextClip]_vars

NextSpatial ==
    \/ \E t \in LocalTransforms : NewSpatial(t)
    \/ \E s \in 1..MaxSpatials, p \in 0..MaxSpatials : SetParent(s, p)
    \/ \E s \in 1..MaxSpatials, t \in LocalTransforms : SetLocalTransform(s, t)
    \/ \E s \in 1..MaxSpatials, x \in LocalPositions : SetLocalPos(s, x)
    \/ \E s \in 1..MaxSpatials : GlobalTransform(s)

SpecSpatial == Init /\ [][NextSpatial]_vars

\* Histories of the index: colliders are registered in either order, the
\* first one is relocated between the chunks, the set of chunks is iterated
\* in either order, and the resolver is asked about the same boxes.
NextOrder ==
    \/ \E p \in OrderTiles : SetTile(p, 1)
    \/ \E e \in Entities, b \in ListenBoxes : SpawnCollider(e, b)
    \/ \E b \in ListenBoxes : SetCollider(1, b)
    \/ Rehash
    \/ \E m \in OrderMovers, by \in OrderDisplacements : MoveBy(m, by, "any")
    \/ \E m \in OrderMovers, by \in OrderDisplacements : GetClipMask(m, by, "colliders")
    \/ \E m \in OrderRegions, f \in Filters : HasCollidersIn(m, f)
    \/ Systems

SpecOrder == Init /\ [][NextOrder]_vars

\* The resolver's queries: in the scene of the kinematic resolver game
\* logic moves boxes, asks for clip masks, tests for colliders and scans
\* regions with callbacks that break or run to the end.
NextResolver ==
    \/ \E p \in SceneTiles : SetTile(p, 1)
    \/ \E b \in SceneColliders : SpawnCollider(1, b)
    \/ \E m \in ProbeBoxes, by \in Velocities : MoveBy(m, by, "tiles")
    \/ \E m \in ProbeBoxes, by \in Velocities, f \in Filters : GetClipMask(m, by, f)
    \/ \E m \in ScanBoxes, f \in Filters : HasCollidersIn(m, f)
    \/ \E m \in ScanBoxes, f \in Filters \cup {"any"}, k \in 0..MaxBreakAfter :
          IterCollidersIn(m, f, k)
    \/ Systems

SpecResolver == Init /\ [][NextResolver]_vars

\* Scans: materials are registered into a new registry, tiles of the
\* second id are written over the default id 0, a collider is indexed and
\* game logic scans regions with a callback that never breaks.
NextScan ==
    \/ registry.len < MaxScanMaterials /\ \E m \in ScanRegistrations : Register(m[1], m[2])
    \/ \E p \in ShapeTiles : SetTile(p, 1)
    \/ \E b \in ScanColliders : SpawnCollider(1, b)
    \/ \E m \in ScanRegions : IterCollidersIn(m, "any", 0)
    \/ Systems

SpecScan == InitScan /\ [][NextScan]_vars

\* Callbacks that break: solid tiles are written, colliders are indexed
\* in the chunks (0,0) and (-1,0), and game logic queries the index, scans
\* regions and walks rays with callbacks that break at their first or
\* second collision, or never.
NextBreak ==
    \/ \E p \in ShapeTiles : SetTile(p, 1)
    \/ \E e \in Entities, b \in RemovalBoxes : SpawnCollider(e, b)
    \/ \E q \in RemovalQueries, k \in 0..MaxBreakAfter : CollisionsUntil(q, k)
    \/ \E q \in RemovalQueries, f \in Filters \cup {"any"}, k \in 0..MaxBreakAfter :
          IterCollidersIn(q, f, k)
    \/ \E r \in BreakRays, k \in 0..MaxBreakAfter : StepRayTilesUntil(r[1], r[2], k)
    \/ Systems

SpecBreak == Init /\ [][NextBreak]_vars

\* The material registry on its own: materials are registered, also under
\* a name already used, and looked up by name.
NextRegistry ==
    \/ \E name \in Names, entity \in RegistryEntities :
          /\ Cardinality(DOMAIN registry.base) < MaxRegistrations
          /\ Register(name, entity)
    \/ \E name \in Names : LookupByName(name)

SpecRegistry == InitRegistry /\ [][NextRegistry]_vars

\* The descriptor cache on its own: materials with and without collision
\* shape are registered into a new registry, and the cache is asked for
\* registered ids in any order.
NextCache ==
    \/ \E name \in Names, entity \in RegistryEntities :
          /\ registry.len < MaxCacheMaterials
          /\ Register(name, entity)
    \/ \E id \in 0..(MaxCacheMaterials - 1) : CacheGet(id)

SpecCache == InitScan /\ [][NextCache]_vars

\* The coordinate config: conversions and ray stepping applied to bounded
\* inputs.
NextCoords ==
    \/ last = NoCall /\ \E size \in TileSizes, x, y \in ActorCoords : ActorToTile(size, <<x, y>>)
    \/ last = NoCall /\ \E t \in TileCoords : DecomposeWorldPos(t)
    \/ last = NoCall /\ \E r \in Rays : StepRayTiles(r[1], r[2])

SpecCoords == Init /\ [][NextCoords]_vars

\* Single ray steps: step_ray of a config with a small tile size applied
\* to every origin and step of a grid around the origin.
NextRays ==
    last = NoCall /\ \E o \in RayPoints, d \in RayPoints : StepRay(RayTileSize, o, d)

SpecRays == Init /\ [][NextRays]_vars

\* Walks of step_ray_tiles along the axes, iteration by iteration.  The
\* loop is left as soon as its condition fails.
NextWalk ==
    \/ \E size \in WalkSizes, r \in WalkRays : WalkBegin(size, r[1], r[2])
    \/ WalkIterate
    \/ WalkEnd

SpecWalk == Init /\ [][NextWalk]_vars

SpecWalkFair == SpecWalk /\ WF_vars(WalkIterate) /\ WF_vars(WalkEnd)

\* ------------------------------------------------------------------------
\* Properties
\* ------------------------------------------------------------------------
Registered(e) == reg[e] # NoBox

\* C1: in every chunk the box and handle sequences have equal length, entry
\* i of both describes the same collider, that collider records this chunk
\* and position i, and every live tracked collider is found at its stored
\* index in the chunk it records as its owner.
C1_IndexConsistent ==
    /\ \A c \in DOMAIN cchunks :
         /\ Len(cchunks[c].aabbs) = Len(cchunks[c].handles)
         /\ \A i \in 1..Len(cchunks[c].handles) :
              LET e == cchunks[c].handles[i]
              IN /\ tracked[e].present
                 /\ tracked[e].chunk = c
                 /\ tracked[e].index = i - 1
                 /\ i <= Len(cchunks[c].aabbs) => cchunks[c].aabbs[i] = reg[e]
    /\ \A e \in Entities :
         (tracked[e].present /\ collider[e].state = "alive") =>
            LET c == tracked[e].chunk
            IN /\ c \in DOMAIN cchunks
               /\ tracked[e].index + 1 <= Len(cchunks[c].handles)
               /\ cchunks[c].handles[tracked[e].index + 1] = e

\* Witness of C1: entity 1 was swap-removed from slot 0 of a chunk (it is
\* despawned, unregistered and not yet unlinked) and entity 2, which shared
\* the chunk, now sits in slot 0 with its index patched.
C1_Witness ==
    /\ collider[1].state = "dead" /\ tracked[1].present /\ ~Registered(1)
    /\ tracked[1].index = 0
    /\ collider[2].state = "alive" /\ tracked[2].present /\ Registered(2)
    /\ tracked[2].chunk = tracked[1].chunk
    /\ tracked[2].index = 0

SeqToSet(q) == {q[i] : i \in DOMAIN q}

NoDuplicates(q) == \A i, j \in DOMAIN q : q[i] = q[j] => i = j

\* The colliders a query of box q has to report.
Intersecting(q) == {<<e, reg[e]>> : e \in {d \in Entities : Registered(d) /\ Intersects(q, reg[d])}}

\* C2: collisions(box) reports exactly the registered colliders whose box
\* intersects the query box, each once.
C2_CollisionsExact ==
    last.op = "collisions" =>
        /\ NoDuplicates(last.ret)
        /\ SeqToSet(last.ret) = Intersecting(last.aabb)

\* What does hold of collisions: no duplicates, nothing that is not a
\* registered intersecting collider, and nothing missed among the colliders
\* whose half extents are within the broad-phase margin.
WithinMargin(b) ==
    /\ b.max[1] - b.min[1] <= 2 * CollisionMargin
    /\ b.max[2] - b.min[2] <= 2 * CollisionMargin

C2_CollisionsSound ==
    last.op = "collisions" =>
        /\ NoDuplicates(last.ret)
        /\ SeqToSet(last.ret) \subseteq Intersecting(last.aabb)
        /\ \A x \in Intersecting(last.aabb) : WithinMargin(x[2]) => x \in SeqToSet(last.ret)

InWorld(c) == c \in DOMAIN objs /\ \E pos \in DOMAIN chunks : chunks[pos] = c

\* C3: for every chunk C of the world and every face D, slot D of C is
\* populated iff the map has a chunk at C.pos + D, and then the slot holds
\* that chunk, whose opposite slot holds C.
C3_NeighborSymmetry ==
    \A pos \in DOMAIN chunks : \A f \in Faces :
        LET c == chunks[pos]
            n == objs[c].neighbors[f]
            npos == VAdd(objs[c].pos, FaceVec[f])
        IN /\ (n # NONE) <=> (npos \in DOMAIN chunks)
           /\ n # NONE => /\ n = chunks[npos]
                          /\ objs[n].neighbors[Invert(f)] = c

\* Witness of C3: two chunks of the world are linked, and a chunk that was
\* linked to one of them has been removed from the world.
C3_Witness ==
    /\ \E pos \in DOMAIN chunks : \E f \in Faces : objs[chunks[pos]].neighbors[f] # NONE
    /\ \E c \in DOMAIN objs :
         /\ ~objs[c].world
         /\ \E f \in Faces : objs[c].neighbors[f] # NONE /\ InWorld(objs[c].neighbors[f])

\* C4: after remove_from_world has run for a chunk A (the step of
\* sys_unregister_chunk_from_world), A has no world, the map has no entry at
\* A's coordinate and no chunk of the world holds A in a slot; and on a
\* chunk that has no world the call changes nothing.
C4_RemovePost ==
    [][(pc = "unregister" /\ pc' # "unregister") =>
          \A a \in removedCh :
              /\ ~objs'[a].world
              /\ objs[a].pos \notin DOMAIN chunks'
              /\ \A pos \in DOMAIN chunks' : \A f \in Faces :
                    objs'[chunks'[pos]].neighbors[f] # a]_vars

C4_RemoveNoWorldNoOp ==
    \A a \in DOMAIN objs : ~objs[a].world => remove_from_world(World, a) = World

C4_Remove == C4_RemovePost /\ []C4_RemoveNoWorldNoOp

\* Witness of C4: the removal system has just run for a chunk that had a
\* neighbour, and that neighbour is still in the world.
C4_Witness ==
    /\ pc = "unlink"
    /\ \E a \in unlinkCh :
         /\ ~objs[a].world
         /\ \E f \in Faces : objs[a].neighbors[f] # NONE /\ InWorld(objs[a].neighbors[f])

\* C5: every key of the map refers to a chunk whose handle is alive, whose
\* recorded coordinate is the key and whose world is set.
C5_MapRefersToLiveChunks ==
    \A pos \in DOMAIN chunks :
        LET c == chunks[pos]
        IN /\ c \in DOMAIN objs
           /\ objs[c].live
           /\ objs[c].pos = pos
           /\ objs[c].world

\* Witness of C5: a chunk entity has been despawned and the removal system
\* has not run yet, so the map still holds the chunk.
C5_Witness ==
    \E pos \in DOMAIN chunks : ~objs[chunks[pos]].entity /\ chunks[pos] \in removedCh

Count(q, x) == Cardinality({i \in DOMAIN q : q[i] = x})

\* C6: a call of chunk_or_create that finds the chunk returns the handle the
\* map holds and sends nothing, the handle at a coordinate does not change
\* while the chunk exists, and every chunk ever created has exactly one
\* creation event.
C6_OneEventPerChunk ==
    /\ \A c \in DOMAIN objs : Count(events, c) = 1
    /\ \A i \in DOMAIN events : events[i] \in DOMAIN objs

C6_SameHandle ==
    [][/\ \A pos \in (DOMAIN chunks) \cap (DOMAIN chunks') : chunks'[pos] = chunks[pos]
       /\ (last'.op = "chunk_or_create" /\ last'.pos \in DOMAIN chunks) =>
             /\ last'.ret = chunks[last'.pos]
             /\ last'.sent = 0
             /\ events' = events
       /\ (last'.op = "chunk_or_create" /\ last'.pos \notin DOMAIN chunks) =>
             /\ last'.ret \notin DOMAIN objs
             /\ last'.sent = 1]_vars

C6_ChunkOrCreateIdempotent == C6_SameHandle /\ []C6_OneEventPerChunk

\* Witness of C6: chunk_or_create was just called for a chunk that existed,
\* in a world where a tile write and a collider query created chunks too.
C6_Witness ==
    /\ last.op = "chunk_or_create" /\ last.sent = 0
    /\ <<-1, -1>> \in DOMAIN chunks
    /\ Len(events) = MaxChunks

LastWritten(p) == IF p \in DOMAIN written THEN written[p] ELSE AIR

\* C7: tile(p) is the material last written at p, air if p was never
\* written.
C7_TileReadsLastWrite ==
    /\ \A p \in TilePositions : tile(World, p).ret = LastWritten(p)
    /\ last.op = "tile" => last.ret = LastWritten(last.pos)

\* Witness of C7: two tiles of one chunk that differ by the row stride hold
\* different materials, a tile at negative coordinates was written, a tile
\* was overwritten with air, and tile was just called.
C7_Witness ==
    /\ last.op = "tile" /\ last.pos = <<0, 1>>
    /\ LastWritten(<<1, 0>>) = 1 /\ LastWritten(<<0, 1>>) = 2
    /\ LastWritten(<<-1, -1>>) = 2
    /\ <<0, 0>> \in DOMAIN written /\ written[<<0, 0>>] = AIR
    /\ <<0, 0>> \in DOMAIN chunks

\* C8: tile(pos) for a tile whose chunk does not exist returns air and
\* changes neither the map, the chunks nor the events.
C8_TileMissingChunk ==
    [][(last'.op = "tile" /\ decompose_world_pos(last'.pos).chunk \notin DOMAIN chunks) =>
          /\ last'.ret = AIR
          /\ chunks' = chunks
          /\ objs' = objs
          /\ events' = events]_vars

\* Witness of C8: tile was just called for a position whose chunk is
\* missing, in a world that has another chunk.
C8_Witness ==
    /\ last.op = "tile"
    /\ decompose_world_pos(last.pos).chunk \notin DOMAIN chunks
    /\ chunks # <<>>

\* The collision boxes of the static geometry: one box per tile of the
\* world whose material has a collider descriptor.
ChunkTilePositions(c) ==
    {<<c[1] * CHUNK_EDGE + x, c[2] * CHUNK_EDGE + y>> :
        x \in 0..(CHUNK_EDGE - 1), y \in 0..(CHUNK_EDGE - 1)}

TileBoxes ==
    {tile_to_actor_rect(p) :
        p \in {q \in UNION {ChunkTilePositions(c) : c \in DOMAIN chunks} :
                 tile(World, q).ret # AIR}}

\* The boxes of the dynamic collider index.
IndexedBoxes == {reg[e] : e \in {d \in Entities : Registered(d)}}

\* The boxes a filter accepts, static and dynamic.
AcceptedTileBoxes(f) == {B \in TileBoxes : Filter(f, [kind |-> "tile", aabb |-> B])}

AcceptedBoxes(f) ==
    AcceptedTileBoxes(f) \cup {B \in IndexedBoxes : Filter(f, [kind |-> "collider", aabb |-> B])}

\* Distance from the leading face of M to the near face of B when M travels
\* along the axis in the direction of sign; negative when the leading face
\* is past the near face.
Gap(M, B, axis, sign) ==
    IF sign < 0 THEN M.min[axis] - B.max[axis] ELSE B.min[axis] - M.max[axis]

\* Length of the overlap of two boxes on one axis; zero or less when they
\* do not overlap there.
OverlapOn(A, B, axis) == Min2(A.max[axis], B.max[axis]) - Max2(A.min[axis], B.min[axis])

Other(axis) == 3 - axis

Moved == Translated(last.aabb, last.ret)

\* C9: after move_by(M, by, filter), for every axis on which M was asked to
\* move and every static (tile) box B accepted by the filter that lay ahead
\* of M on that axis, the moved box does not overlap B by more than
\* TOLERANCE on that axis.
C9_NoPenetration ==
    last.op = "move_by" =>
        \A axis \in {1, 2} : \A B \in AcceptedTileBoxes(last.filter) :
            (last.by[axis] # 0 /\ Gap(last.aabb, B, axis, last.by[axis]) >= 0)
            => ~(OverlapOn(Moved, B, Other(axis)) > 0 /\ OverlapOn(Moved, B, axis) > TOLERANCE)

\* Witness of C9: a box 40 away from the wall tile was asked to move 60
\* toward it and was stopped TOLERANCE short of the wall.
C9_Witness ==
    /\ last.op = "move_by" /\ last.by = <<6000, 0>> /\ last.filter = "tiles"
    /\ \E B \in AcceptedTileBoxes(last.filter) :
          /\ Gap(last.aabb, B, 1, 1) = 4000
          /\ OverlapOn(last.aabb, B, 2) > 0
          /\ Gap(Moved, B, 1, 1) = TOLERANCE
    /\ last.ret = <<3999, 0>>

\* An axis is blocked when an accepted static box lies ahead of M on that
\* axis at a distance of at most TOLERANCE, facing M over the whole stretch
\* M is asked to cover on the other axis.
Blocked(M, by, axis, f) ==
    \E B \in AcceptedTileBoxes(f) :
        /\ Gap(M, B, axis, by[axis]) >= 0
        /\ Gap(M, B, axis, by[axis]) <= TOLERANCE
        /\ OverlapOn(M, B, Other(axis)) > 0
        /\ OverlapOn(Translated(M, UnitMag(Other(axis), by[Other(axis)])), B, Other(axis)) > 0

\* An axis is open when no accepted box that shares M's range on the other
\* axis (touching counts) has its near face within TOLERANCE of M's leading
\* face.
Open(M, by, axis, f) ==
    \A B \in AcceptedBoxes(f) :
        OverlapOn(M, B, Other(axis)) >= 0 => Abs(Gap(M, B, axis, by[axis])) > TOLERANCE

\* C10: a diagonal move_by with one axis open and the other blocked returns
\* a displacement that is nonzero on the open axis and zero on the blocked
\* axis.
C10_CornerSliding ==
    (last.op = "move_by" /\ last.by[1] # 0 /\ last.by[2] # 0) =>
        \A axis \in {1, 2} :
            (/\ Open(last.aabb, last.by, axis, last.filter)
             /\ Blocked(last.aabb, last.by, Other(axis), last.filter))
            => (last.ret[axis] # 0 /\ last.ret[Other(axis)] = 0)

\* Witness of C10: a box resting on the floor, 10 away from the wall, was
\* moved diagonally into the corner and slid along the floor.
C10_Witness ==
    /\ last.op = "move_by" /\ last.by = <<500, 500>> /\ last.filter = "tiles"
    /\ Open(last.aabb, last.by, 1, last.filter)
    /\ Blocked(last.aabb, last.by, 2, last.filter)
    /\ \E B \in AcceptedTileBoxes(last.filter) : Gap(last.aabb, B, 1, 1) = 1000
    /\ last.ret = <<500, 0>>

\* ------------------------------------------------------------------------
\* C11
\* ------------------------------------------------------------------------
\* The ledge material is registered and written at tile p.
LedgeAt(p) ==
    /\ tile(World, p).ret \in DOMAIN registry.descriptors
    /\ registry.descriptors[tile(World, p).ret] = ColliderEntity(<<LedgeShape>>)

\* The box the ledge of tile (0,0) occupies: x in [20, 70], y in [0, 50].
LedgeBox ==
    Translated([min |-> <<FMul(LedgeShape.min[1], TileSize), FMul(LedgeShape.min[2], TileSize)>>,
                max |-> <<FMul(LedgeShape.max[1], TileSize), FMul(LedgeShape.max[2], TileSize)>>],
               tile_to_actor_rect(<<0, 0>>).min)

\* The last step was move_by(box, (100,0), tile filter) for the 40x40 box
\* centred at the origin, with the ledge in tile (0,0).
C11_Scenario ==
    /\ last.op = "move_by"
    /\ ~last.panicked
    /\ last.aabb = ScenarioMover
    /\ last.by = <<10000, 0>>
    /\ last.filter = "tiles"
    /\ LedgeAt(<<0, 0>>)
    /\ LedgeBox = [min |-> <<2000, 0>>, max |-> <<7000, 5000>>]

\* C11 as stated: in the scenario the right edge of the mover ends at
\* 70 - TOLERANCE.
C11_RightEdgeAtFarFace ==
    C11_Scenario => Moved.max[1] = LedgeBox.max[1] - TOLERANCE

\* C11, amended: in the scenario the right edge of the mover, which starts
\* in contact with the near face of the shape at x = 20, stays at 20: the
\* resolved displacement is (0,0), neither 100 nor up to 70 - TOLERANCE.
C11_RightEdgeStays ==
    C11_Scenario => /\ last.ret = <<0, 0>>
                    /\ Moved.max[1] = LedgeBox.min[1]

C11_Witness == C11_Scenario

\* ------------------------------------------------------------------------
\* C12
\* ------------------------------------------------------------------------
\* C12: the displacement move_by(box, (dx, dy), filter) returns is the sum
\* of what move_by(box, (dx, 0), filter) returns and of what
\* move_by(box translated by that result, (0, dy), filter) returns next.
C12_AxisComposition ==
    [][last'.op = "move_by" /\ ~last'.panicked =>
         \A x \in {move_by(World, last'.aabb, <<last'.by[1], 0>>, last'.filter)} :
         \A y \in {move_by(x.w, Translated(last'.aabb, x.ret), <<0, last'.by[2]>>,
                           last'.filter)} :
            /\ x.ret[2] = 0
            /\ y.ret[1] = 0
            /\ last'.ret = VAdd(x.ret, y.ret)]_vars

\* A diagonal move of the floating box over a floor tile that lies under
\* the box where it starts and not under the box moved along X: Y is free.
C12_Witness ==
    /\ last.op = "move_by"
    /\ last.aabb = [min |-> <<12000, 12000>>, max |-> <<16000, 16000>>]
    /\ last.by = <<6000, 6000>>
    /\ last.filter = "tiles"
    /\ tile(World, <<2, 4>>).ret # AIR
    /\ last.ret = <<6000, 6000>>

\* ------------------------------------------------------------------------
\* C13
\* ------------------------------------------------------------------------
\* The last step was step_ray_tiles from (0,0) to (125,0).
C13_Scenario ==
    /\ last.op = "step_ray_tiles"
    /\ last.src = <<0, 0>>
    /\ last.dst = <<12500, 0>>

\* C13 as stated: the callback gets the tiles (0,0), (1,0), (2,0) and then
\* the destination tile (2,0) once more.
C13_VisitsSourceTile ==
    C13_Scenario => last.ret = << <<0, 0>>, <<1, 0>>, <<2, 0>>, <<2, 0>> >>

\* C13, amended: the callback gets the tiles the ray enters, (1,0) and
\* (2,0), in that order, and then the destination tile (2,0) once more; it
\* does not get the tile (0,0) the ray starts in.
C13_VisitsEnteredTiles ==
    C13_Scenario => last.ret = << <<1, 0>>, <<2, 0>>, <<2, 0>> >>

C13_Witness == C13_Scenario /\ Len(last.ret) = 3

\* ------------------------------------------------------------------------
\* C14
\* ------------------------------------------------------------------------
\* C14: the box of the tile a position converts to contains the position:
\* on each axis tile * size <= pos < (tile + 1) * size.
C14_TileRectContainsPos ==
    last.op = "actor_to_tile" =>
        /\ last.rect = TileLayerConfig_tile_to_actor_rect(last.size, last.ret)
        /\ \A axis \in 1..2 :
              /\ last.ret[axis] * last.size <= last.pos[axis]
              /\ last.pos[axis] < (last.ret[axis] + 1) * last.size
              /\ last.rect.min[axis] <= last.pos[axis]
              /\ last.pos[axis] < last.rect.max[axis]

\* A position with a negative coordinate that is no multiple of the size.
C14_Witness ==
    /\ last.op = "actor_to_tile"
    /\ last.size = 7
    /\ last.pos = <<-1, 13>>
    /\ last.ret = <<-1, 1>>

\* ------------------------------------------------------------------------
\* C15
\* ------------------------------------------------------------------------
\* C15: decompose_world_pos(t) = (chunk, local) satisfies
\* chunk * 16 + local = t with both components of local in 0..15, and
\* to_tile_index(local) lies in 0..255 and differs for any other local.
C15_DecomposeRoundTrip ==
    last.op = "decompose_world_pos" =>
        /\ \A axis \in 1..2 :
              /\ last.chunk[axis] * CHUNK_EDGE + last.local[axis] = last.pos[axis]
              /\ last.local[axis] \in 0..(CHUNK_EDGE - 1)
        /\ last.index \in 0..(CHUNK_AREA - 1)
        /\ \A other \in (0..(CHUNK_EDGE - 1)) \X (0..(CHUNK_EDGE - 1)) :
              other # last.local => to_tile_index(other) # last.index

\* A tile with negative coordinates.
C15_Witness ==
    /\ last.op = "decompose_world_pos"
    /\ last.pos = <<-1, -17>>
    /\ last.chunk = <<-1, -2>>
    /\ last.local = <<15, 15>>
    /\ last.index = 255

\* ------------------------------------------------------------------------
\* C16
\* ------------------------------------------------------------------------
\* C16: the k-th call to register, counting from 0, returned id k, and no
\* two calls returned the same id.
C16_SequentialIds ==
    /\ \A k \in DOMAIN registry.base : registry.base[k].id = k
    /\ \A j, k \in DOMAIN registry.base :
          j # k => registry.base[j].id # registry.base[k].id
    /\ last.op = "register" => last.ret = last.k

\* ------------------------------------------------------------------------
\* C17
\* ------------------------------------------------------------------------
\* The calls made for a name, and the ids handed out in the behaviour.
CallsFor(name) == {k \in DOMAIN registry.base : registry.base[k].name = name}

AssignedIds == {registry.base[k].id : k \in DOMAIN registry.base}

MaxOf(S) == CHOOSE x \in S : \A y \in S : y <= x

\* C17 as stated: every assigned id is the lookup_by_name result of
\* exactly one name, and every registered name maps to exactly one id.
C17_Bijection ==
    /\ \A id \in AssignedIds :
          Cardinality({name \in Names : lookup_by_name(registry, name)
                                          = [some |-> TRUE, id |-> id]}) = 1
    /\ \A name \in Names : CallsFor(name) # {} => lookup_by_name(registry, name).some

\* C17, amended: every registered name maps to exactly one id, the id the
\* most recent register call for that name returned, and a name never
\* registered maps to none.
C17_NameMapsToLatestId ==
    \A name \in Names :
        IF CallsFor(name) = {} THEN ~lookup_by_name(registry, name).some
        ELSE lookup_by_name(registry, name)
                 = [some |-> TRUE, id |-> registry.base[MaxOf(CallsFor(name))].id]

\* A name was registered twice: the id of its first registration is the
\* result of no name.
C17_Witness ==
    /\ CallsFor("game:dirt") = {0, 1}
    /\ lookup_by_name(registry, "game:dirt") = [some |-> TRUE, id |-> 1]
    /\ \A name \in Names : lookup_by_name(registry, name) # [some |-> TRUE, id |-> 0]

\* ------------------------------------------------------------------------
\* C18
\* ------------------------------------------------------------------------
\* The tiles the X axis of the last move_by looked up (those of the Y axis
\* are among them), and what is written there.
SweptTiles == TilesOf(check_aabb_of(last.aabb, 1, last.by[1]))

SweptMaterials == {tile(World, p).ret : p \in SweptTiles} \ {AIR}

Unregistered(id) == id >= registry.len

Shapeless(id) == ~Unregistered(id) /\ ~MaterialRegistry_lookup(registry, id).ret.has_collider

\* C18 as stated: resolving the shapes of tiles among which one has a
\* material id never registered does not fail.
C18_UnregisteredYieldsNoShape ==
    last.op = "move_by" /\ (\E id \in SweptMaterials : Unregistered(id)) => ~last.panicked

\* C18, amended: a tile whose material is registered without a collision
\* descriptor has no shape and blocks nothing; a tile whose material id
\* was never registered makes the lookup panic.
C18_ShapelessOrPanic ==
    last.op = "move_by" =>
        /\ last.panicked <=> \E id \in SweptMaterials : Unregistered(id)
        /\ (\A id \in SweptMaterials : Shapeless(id)) => last.ret = last.by

\* A move over a tile whose material id was not registered.
C18_Witness ==
    /\ last.op = "move_by"
    /\ last.panicked
    /\ pc = "panicked"
    /\ \E id \in SweptMaterials : Unregistered(id)

\* A move over a tile whose material has no collision descriptor.
C18_ShapelessWitness ==
    /\ last.op = "move_by"
    /\ SweptMaterials # {}
    /\ \A id \in SweptMaterials : Shapeless(id)
    /\ last.ret = last.by

\* ------------------------------------------------------------------------
\* C19
\* ------------------------------------------------------------------------
\* The colliders a query of box q has to report when the index is up to
\* date with the Collider components.
IntersectingNow(q) ==
    {<<e, collider[e].aabb>> :
        e \in {d \in Entities : collider[d].state = "alive" /\ Intersects(q, collider[d].aabb)}}

\* C19: a query reports colliders with the box their Collider component
\* holds when the query runs, no despawned collider, none twice, and it
\* misses no live collider whose box intersects the query box (among those
\* small enough for the broad phase to find).
C19_QueriesSeeChanges ==
    last.op = "collisions" =>
        /\ NoDuplicates(last.ret)
        /\ SeqToSet(last.ret) \subseteq IntersectingNow(last.aabb)
        /\ \A x \in IntersectingNow(last.aabb) : WithinMargin(x[2]) => x \in SeqToSet(last.ret)

\* ------------------------------------------------------------------------
\* C20
\* ------------------------------------------------------------------------
\* C20: no collider is registered into a chunk without collider state,
\* every tracked collider is in a chunk with collider state, and after a
\* query every chunk the query covers exists and has collider state,
\* whether or not its creation notification was processed.
C20_ColliderStateAttached ==
    /\ \A c \in DOMAIN cchunks :
          ~cchunks[c].present => cchunks[c].aabbs = <<>> /\ cchunks[c].handles = <<>>
    /\ \A e \in Entities :
          tracked[e].present =>
              tracked[e].chunk \in DOMAIN cchunks /\ cchunks[tracked[e].chunk].present
    /\ last.op = "collisions" =>
          \A pos \in CoveredChunks(last.aabb) :
              pos \in DOMAIN chunks /\ cchunks[chunks[pos]].present

\* A query created a chunk whose notification is not processed yet.
C20_Witness ==
    /\ last.op = "collisions"
    /\ last.sent > 0
    /\ evCursor < Len(events)
    /\ \A pos \in CoveredChunks(last.aabb) : cchunks[chunks[pos]].present

\* A collider was registered into a chunk its own registration created,
\* before the notification of the chunk was processed.
C20_RegistrationWitness ==
    /\ pc = "move"
    /\ evCursor < Len(events)
    /\ \E e \in Entities :
          /\ tracked[e].present
          /\ tracked[e].chunk > evCursor
          /\ cchunks[tracked[e].chunk].handles # <<>>

\* ------------------------------------------------------------------------
\* C21
\* ------------------------------------------------------------------------
InSomeChunk(cc, e) == \E c \in DOMAIN cc : \E i \in DOMAIN cc[c].handles : cc[c].handles[i] = e

\* The step of sys_remove_collider: every removed collider and the
\* collider state of its chunk are still in their arenas, nothing panics,
\* afterwards no chunk sequence holds a removed collider, and every entry
\* left in a sequence has its collider's chunk, index and box.
C21_UnregisteredWhileLive ==
    [][pc = "remove" =>
          /\ pc' # "panicked"
          /\ \A e \in removedTC :
                /\ tracked[e].present
                /\ cchunks[tracked[e].chunk].present
                /\ InSomeChunk(cchunks, e)
                /\ ~InSomeChunk(cchunks', e)
          /\ \A c \in DOMAIN cchunks' :
                /\ Len(cchunks'[c].aabbs) = Len(cchunks'[c].handles)
                /\ \A i \in DOMAIN cchunks'[c].handles :
                      LET d == cchunks'[c].handles[i]
                      IN /\ d \notin removedTC
                         /\ tracked'[d].chunk = c
                         /\ tracked'[d].index = i - 1
                         /\ cchunks'[c].aabbs[i] = collider[d].aabb]_vars

\* A collider that was removed and processed by the removal system is in
\* no chunk sequence and in no result of collisions.
C21_Gone ==
    \A e \in Entities :
        (collider[e].state \in {"dead", "detached"} /\ e \notin removedTC) =>
            /\ ~InSomeChunk(cchunks, e)
            /\ last.op = "collisions" => \A i \in DOMAIN last.ret : last.ret[i][1] # e

C21_DetachWitness ==
    /\ collider[1].state = "detached" /\ 1 \notin removedTC
    /\ last.op = "collisions"
    /\ Intersects(last.aabb, collider[1].aabb)
    /\ \A i \in DOMAIN last.ret : last.ret[i][1] # 1

\* ------------------------------------------------------------------------
\* C22
\* ------------------------------------------------------------------------
\* C22: no live tracked collider records as its owner the collider chunk
\* of a chunk that was removed from the world or whose arena slots were
\* freed, and no system panics on such a handle.
C22_NoDanglingOwner ==
    /\ pc # "panicked"
    /\ \A e \in Entities :
          (tracked[e].present /\ collider[e].state = "alive") =>
              /\ objs[tracked[e].chunk].world
              /\ objs[tracked[e].chunk].live
              /\ cchunks[tracked[e].chunk].present

\* ------------------------------------------------------------------------
\* C23
\* ------------------------------------------------------------------------
ResolverOps == {"move_by", "get_clip_mask", "has_colliders_in", "iter_colliders_in"}

\* The step is a call of the resolver made by game logic.
ResolverCall == pc = "update" /\ last'.op \in ResolverOps

\* The chunks the call created.
CreatedChunks == (DOMAIN objs') \ (DOMAIN objs)

\* How far beyond the box of the call its scanned regions reach.
Reach(call) ==
    CASE call.op = "move_by" -> Max2(Abs(call.by[1]), Abs(call.by[2])) + TOLERANCE
      [] call.op = "get_clip_mask" -> 2 * TOLERANCE
      [] OTHER -> 0

\* The chunk coordinates within the broad-phase margin of those regions.
ChunksNear(call) ==
    {decompose_world_pos(t).chunk :
        t \in TilesOf(Grow(Grow(call.aabb, Reach(call)), CollisionMargin))}

\* C23 as stated: a call of move_by, get_clip_mask, has_colliders_in or
\* iter_colliders_in leaves the set of chunks, the tile contents, the
\* collider sequences and the notifications sent as they were.
C23_NoStateChange ==
    [][ResolverCall => UNCHANGED <<chunks, objs, cchunks, events>>]_vars

\* C23, amended: such a call changes no tile, no registration of a
\* collider and removes no chunk; besides the descriptor cache it may
\* create missing chunks within the margin of the scanned region, each
\* empty, with one notification sent for it, and attach empty collider
\* state to chunks that have none.
C23_OnlyLazyChunks ==
    [][ResolverCall =>
        /\ \A p \in DOMAIN chunks : p \in DOMAIN chunks' /\ chunks'[p] = chunks[p]
        /\ \A c \in DOMAIN objs :
              /\ objs'[c].tiles = objs[c].tiles
              /\ objs'[c].pos = objs[c].pos
              /\ objs'[c].live = objs[c].live
              /\ objs'[c].entity = objs[c].entity
              /\ objs'[c].world = objs[c].world
        /\ \A c \in CreatedChunks :
              /\ objs'[c].tiles = TileChunkDefault.tiles
              /\ objs'[c].pos \in DOMAIN chunks' /\ chunks'[objs'[c].pos] = c
              /\ objs'[c].pos \notin DOMAIN chunks
              /\ objs'[c].pos \in ChunksNear(last')
              /\ Count(events', c) = 1
        /\ \A p \in (DOMAIN chunks') \ (DOMAIN chunks) : chunks'[p] \in CreatedChunks
        /\ Len(events') = Len(events) + Cardinality(CreatedChunks)
        /\ SubSeq(events', 1, Len(events)) = events
        /\ \A c \in DOMAIN cchunks' :
              IF c \in DOMAIN cchunks /\ cchunks[c].present
              THEN cchunks'[c] = cchunks[c]
              ELSE cchunks'[c].present => cchunks'[c].aabbs = <<>> /\ cchunks'[c].handles = <<>>
        /\ UNCHANGED <<tracked, reg, collider, written, listen, spatials, hasher, registry>>
        /\ \A k \in 1..Len(cache) : cache[k] # NONE => cache'[k] = cache[k]]_vars

\* A test for colliders in a region no chunk covers created the chunk.
C23_Witness ==
    /\ pc = "moved"
    /\ last.op = "has_colliders_in"
    /\ ~last.ret
    /\ Len(events) > evCursor
    /\ \E p \in DOMAIN chunks : p[1] < 0 /\ events[Len(events)] = chunks[p]

\* A move filled the descriptor cache.
C23_CacheWitness ==
    /\ pc = "moved"
    /\ last.op = "move_by"
    /\ Len(cache) > 0

\* ------------------------------------------------------------------------
\* C24
\* ------------------------------------------------------------------------
\* The region swept on one axis: the box stretched by the desired
\* displacement and TOLERANCE in the direction of travel.
SweepRegion(M, axis, d) ==
    IF axis = 1
    THEN [min |-> <<M.min[1] + (IF d < 0 THEN d - TOLERANCE ELSE 0), M.min[2]>>,
          max |-> <<M.max[1] + (IF d < 0 THEN 0 ELSE d + TOLERANCE), M.max[2]>>]
    ELSE [min |-> <<M.min[1], M.min[2] + (IF d < 0 THEN d - TOLERANCE ELSE 0)>>,
          max |-> <<M.max[1], M.max[2] + (IF d < 0 THEN 0 ELSE d + TOLERANCE)>>]

\* The boxes of a set that reach into the swept region, and those that at
\* least touch it; whether a box that only touches the region's boundary
\* intersects it is left to Aabb::intersects.
Overlapping(S, M, axis, d) ==
    {B \in S : /\ OverlapOn(B, SweepRegion(M, axis, d), 1) > 0
               /\ OverlapOn(B, SweepRegion(M, axis, d), 2) > 0}

Touching(S, M, axis, d) ==
    {B \in S : /\ OverlapOn(B, SweepRegion(M, axis, d), 1) >= 0
               /\ OverlapOn(B, SweepRegion(M, axis, d), 2) >= 0}

\* The travel a blocker allows.
Allowed(M, B, axis, d) ==
    Max2(0, Abs(Gap(M, B, axis, IF d < 0 THEN -1 ELSE 1)) - TOLERANCE)

\* The least of the desired travel and the travels a set of blockers
\* allows.
LeastTravel(S, M, axis, d) ==
    LET travels == {Abs(d)} \cup {Allowed(M, B, axis, d) : B \in S}
    IN CHOOSE t \in travels : \A u \in travels : t <= u

\* r is the displacement the claim states for one axis, for some reading
\* of which boundary-touching boxes intersect the swept region.
Resolved(r, M, axis, d, f) ==
    /\ r = (IF d < 0 THEN -1 ELSE 1) * Abs(r)
    /\ Abs(r) <= LeastTravel(Overlapping(AcceptedBoxes(f), M, axis, d), M, axis, d)
    /\ Abs(r) >= LeastTravel(Touching(AcceptedBoxes(f), M, axis, d), M, axis, d)
    /\ \/ Abs(r) = Abs(d)
       \/ \E B \in Touching(AcceptedBoxes(f), M, axis, d) : Abs(r) = Allowed(M, B, axis, d)
    /\ Touching(AcceptedBoxes(f), M, axis, d) = {} => r = d

SceneBoxes == {tile_to_actor_rect(p) : p \in {q \in SceneTiles : tile(World, q).ret # AIR}}

\* The axis the second move travels along, when it is a move along one
\* axis.
SlideAxis == IF last.by[1] # 0 THEN 1 ELSE 2

\* The first move was stopped on the axis by B, which faces the mover and
\* is left at the distance gap from its leading face.
StoppedBy(B, axis, gap) ==
    /\ Abs(last.first.ret[axis]) < Abs(last.first.by[axis])
    /\ OverlapOn(last.aabb, B, Other(axis)) > 0
    /\ Gap(last.aabb, B, axis, SignOfBiased(last.first.by[axis])) = gap

\* The second move runs along the other axis, or on the same axis
\* away from the blocker.
AlongOrAway(axis) ==
    \/ SlideAxis = Other(axis)
    \/ SlideAxis = axis /\ SignOfBiased(last.by[axis]) # SignOfBiased(last.first.by[axis])

\* No box but B reaches or touches the region the second move sweeps.
OnlyBlocker(B) == Touching(SceneBoxes \ {B}, last.aabb, SlideAxis, last.by[SlideAxis]) = {}

\* C25 as stated: a mover stopped against a blocker, resting TOLERANCE
\* short of it or in exact contact with it, gets the full displacement
\* when it next moves along the other axis or directly away.
C25_NoSticking ==
    (last.op = "move_by_next" /\ ~last.panicked) =>
        \A B \in SceneBoxes, axis \in {1, 2}, gap \in {0, TOLERANCE} :
            (StoppedBy(B, axis, gap) /\ AlongOrAway(axis) /\ OnlyBlocker(B))
                => last.ret = last.by

\* C25, amended: a mover stopped against a blocker and resting TOLERANCE
\* short of it gets the full displacement when it next moves along the
\* other axis or directly away.
C25_NoStickingAtTolerance ==
    (last.op = "move_by_next" /\ ~last.panicked) =>
        \A B \in SceneBoxes, axis \in {1, 2} :
            (StoppedBy(B, axis, TOLERANCE) /\ AlongOrAway(axis) /\ OnlyBlocker(B))
                => last.ret = last.by

\* A mover that came to rest TOLERANCE above the floor slid along it.
C25_Witness ==
    /\ last.op = "move_by_next" /\ ~last.panicked
    /\ last.first.ret[2] > 0
    /\ \E B \in SceneBoxes : StoppedBy(B, 2, TOLERANCE) /\ OnlyBlocker(B)
    /\ last.by = <<-500, 0>>
    /\ last.ret = last.by

\* A mover that came to rest TOLERANCE short of the wall moved away from it.
C25_AwayWitness ==
    /\ last.op = "move_by_next" /\ ~last.panicked
    /\ last.first.ret[1] > 0
    /\ \E B \in SceneBoxes : StoppedBy(B, 1, TOLERANCE) /\ OnlyBlocker(B)
    /\ last.by = <<-6000, 0>>
    /\ last.ret = last.by

\* ------------------------------------------------------------------------
\* C26
\* ------------------------------------------------------------------------
\* The box extended by 2 x TOLERANCE along the axis, on the side the sign
\* of the velocity component points to.
ProbeRegion(M, axis, v) ==
    IF axis = 1
    THEN [min |-> <<M.min[1] - (IF v < 0 THEN 2 * TOLERANCE ELSE 0), M.min[2]>>,
          max |-> <<M.max[1] + (IF v < 0 THEN 0 ELSE 2 * TOLERANCE), M.max[2]>>]
    ELSE [min |-> <<M.min[1], M.min[2] - (IF v < 0 THEN 2 * TOLERANCE ELSE 0)>>,
          max |-> <<M.max[1], M.max[2] + (IF v < 0 THEN 0 ELSE 2 * TOLERANCE)>>]

\* Some box of the set reaches into the region; some box reaches or
\* touches it.
ReachesInto(S, R) == \E B \in S : OverlapOn(B, R, 1) > 0 /\ OverlapOn(B, R, 2) > 0

ReachesOrTouches(S, R) == \E B \in S : OverlapOn(B, R, 1) >= 0 /\ OverlapOn(B, R, 2) >= 0

C26_OpenWitness ==
    /\ last.op = "get_clip_mask" /\ ~last.panicked
    /\ last.filter = "tiles"
    /\ last.ret = <<TRUE, TRUE>>
    /\ \E B \in TileBoxes : Gap(last.aabb, B, 2, 1) \in {TOLERANCE, 3 * TOLERANCE}

\* ------------------------------------------------------------------------
\* C27
\* ------------------------------------------------------------------------
\* The tile coordinates of the inclusive tile range that covers a box.
TileRange(box) ==
    {t \in (-1..2) \X (-1..2) :
        \A k \in {1, 2} : t[k] * TileSize <= box.max[k] /\ (t[k] + 1) * TileSize > box.min[k]}

\* A shape of a descriptor, scaled by the tile size and moved to the tile.
ShapeAt(shape, t) ==
    [min |-> <<t[1] * TileSize + (shape.min[1] * TileSize) \div One,
               t[2] * TileSize + (shape.min[2] * TileSize) \div One>>,
     max |-> <<t[1] * TileSize + (shape.max[1] * TileSize) \div One,
               t[2] * TileSize + (shape.max[2] * TileSize) \div One>>]

\* The material at a tile, and the registered descriptor of a material.
MaterialAt(t) == tile(World, t).ret

HasDescriptor(m) == m \in DOMAIN registry.descriptors /\ registry.descriptors[m].has_collider

\* The Tile entries the claim states for a box.
ExpectedTiles(box) ==
    UNION {{[kind |-> "tile", tile |-> t, material |-> MaterialAt(t),
             aabb |-> ShapeAt(registry.descriptors[MaterialAt(t)].aabbs[i], t)] :
               i \in {j \in 1..Len(registry.descriptors[MaterialAt(t)].aabbs) :
                        Intersects(ShapeAt(registry.descriptors[MaterialAt(t)].aabbs[j], t),
                                   box)}} :
           t \in {u \in TileRange(box) : MaterialAt(u) # AIR /\ HasDescriptor(MaterialAt(u))}}

\* The entries of a kind, in the order they were handed over.
OfKind(seen, kind) == SelectSeq(seen, LAMBDA c : c.kind = kind)

\* C27: a scan that runs to the end yields the intersecting sub-boxes of
\* the non-air tiles of the tile range that have a descriptor, each once,
\* followed by the hits of collisions(box): Tile entries precede Collider
\* entries, and a tile of material id 0 yields nothing whatever is
\* registered for id 0.
C27_ScanYields ==
    (last.op = "iter_colliders_in" /\ ~last.panicked /\ last.after = 0) =>
        \A tiles \in {OfKind(last.seen, "tile")}, dyn \in {OfKind(last.seen, "collider")} :
            /\ last.seen = tiles \o dyn
            /\ SeqToSet(tiles) = ExpectedTiles(last.aabb)
            /\ Len(tiles) = Cardinality(ExpectedTiles(last.aabb))
            /\ dyn = ColliderItems(collisions(World, last.aabb).ret)
            /\ \A i \in 1..Len(tiles) : tiles[i].material # 0

\* A scan over tiles of id 0, for which shapes are registered, over a
\* tile of the second material and over the collider yielded the
\* sub-boxes of the second material, then the collider.
C27_Witness ==
    /\ last.op = "iter_colliders_in" /\ ~last.panicked /\ last.after = 0
    /\ HasDescriptor(0) /\ Len(registry.descriptors[0].aabbs) > 0
    /\ \E t \in TileRange(last.aabb) : MaterialAt(t) = 0
    /\ Len(OfKind(last.seen, "tile")) = 2
    /\ Len(OfKind(last.seen, "collider")) = 1

\* ------------------------------------------------------------------------
\* C28
\* ------------------------------------------------------------------------
\* The position in a sequence of the k-th item a filter accepts; 0 when
\* there is none or k is 0.
KthAccepted(full, filter, k) ==
    LET at == {i \in 1..Len(full) :
                  /\ Filter(filter, full[i])
                  /\ Cardinality({j \in 1..i : Filter(filter, full[j])}) = k}
    IN IF k = 0 \/ at = {} THEN 0 ELSE CHOOSE i \in at : TRUE

\* The callback saw the items up to the one it broke at and no more, and
\* Break was returned exactly when it broke; full is what a callback that
\* never breaks is handed.
StoppedAtBreak(full, seen, broke, filter, k) ==
    \A pos \in {KthAccepted(full, filter, k)} :
        /\ broke = (pos > 0)
        /\ seen = IF pos > 0 THEN SubSeq(full, 1, pos) ELSE full

\* The collisions seen, as the pairs of collisions and as the entries of
\* iter_colliders_in.
AsPairs(seen) == [i \in 1..Len(seen) |-> <<seen[i].entity, seen[i].aabb>>]

AsEntries(seen) == [i \in 1..Len(seen) |-> [kind |-> seen[i].kind, aabb |-> seen[i].aabb]]

PairEntries(pairs) == [i \in 1..Len(pairs) |-> [kind |-> "collider", aabb |-> pairs[i][2]]]

\* Chunk coordinate c is visited after d.
VisitedAfter(c, d) == c # d /\ FirstCoord({c, d}) = d

\* No chunk is created at a covered coordinate visited after the chunk of
\* the collider the callback broke at.
NoFurtherChunk ==
    \A c \in CoveredChunks(last'.aabb) \ DOMAIN chunks :
        VisitedAfter(c, cchunks[tracked[last'.seen[Len(last'.seen)].entity].chunk].pos)
            => c \notin DOMAIN chunks'

\* C28: once the callback returns Break, collisions, iter_colliders_in and
\* step_ray_tiles stop: the callback has seen what a callback that never
\* breaks sees up to that item and nothing after it, a scan that broke at
\* a tile has not queried the dynamic colliders, a query that broke visits
\* no further chunk, a walk that broke does not visit the tile of dst, and
\* Break is returned.
C28_BreakStops ==
    [][(pc = "update" /\ pc' = "moved") =>
        /\ last'.op = "collisions_until" =>
              /\ StoppedAtBreak(collisions(World, last'.aabb).ret, AsPairs(last'.seen),
                                last'.broke, "any", last'.after)
              /\ last'.broke => NoFurtherChunk
        /\ last'.op = "iter_colliders_in" =>
              /\ StoppedAtBreak(iter_colliders_in(World, last'.aabb).ret,
                                AsEntries(last'.seen), last'.broke, last'.filter, last'.after)
              /\ (last'.broke /\ last'.seen[Len(last'.seen)].kind = "tile")
                    => UNCHANGED <<chunks, objs, events, cchunks>>
              /\ (last'.broke /\ last'.seen[Len(last'.seen)].kind = "collider")
                    => NoFurtherChunk
        /\ last'.op = "step_ray_tiles_until" =>
              StoppedAtBreak(step_ray_tiles(last'.src, last'.dst), last'.seen,
                             last'.broke, "any", last'.after)]_vars

\* A query broke at a collider of chunk (-1,0) before chunk (0,0), which a
\* query that runs to the end creates, was visited.
C28_Witness ==
    /\ last.op = "collisions_until" /\ last.broke
    /\ Len(last.seen) = 1
    /\ <<-1, 0>> \in DOMAIN chunks
    /\ <<0, 0>> \in CoveredChunks(last.aabb) \ DOMAIN chunks

\* A scan broke at a tile although a collider intersects the region.
C28_ScanWitness ==
    /\ last.op = "iter_colliders_in" /\ last.broke
    /\ last.seen[Len(last.seen)].kind = "tile"
    /\ collisions(World, last.aabb).ret # <<>>

\* A walk that crosses tiles broke at the first one and did not visit the
\* tile of dst.
C28_RayWitness ==
    /\ last.op = "step_ray_tiles_until" /\ last.broke
    /\ Len(last.seen) = 1
    /\ Len(step_ray_tiles(last.src, last.dst)) > 2
    /\ last.seen[1] # actor_to_tile(last.dst)

\* ------------------------------------------------------------------------
\* C29
\* ------------------------------------------------------------------------
\* The fraction of the step at which the ray crosses the border of the
\* origin tile on an axis, as numerator and denominator, both positive.
CrossingAt(size, origin, delta, axis) ==
    [num |-> Abs(EdgeLineNorm(TileLayerConfig_tile_to_actor_rect(
                                  size, TileLayerConfig_actor_to_tile(size, origin)),
                              Compose(axis, SignOfBiased(delta[axis]))) - origin[axis]),
     den |-> Abs(delta[axis])]

\* C29: the crossings step_ray returns are in the order the ray crosses
\* the borders, the X crossing first when both are equally far.
C29_CrossingOrder ==
    (last.op = "step_ray" /\ Len(last.ret) = 2) =>
        \A x \in {CrossingAt(last.size, last.origin, last.delta, 1)},
           y \in {CrossingAt(last.size, last.origin, last.delta, 2)} :
            /\ x.num * y.den <= y.num * x.den => last.ret[1].axis = 1
            /\ y.num * x.den < x.num * y.den => last.ret[1].axis = 2

\* ------------------------------------------------------------------------
\* C30
\* ------------------------------------------------------------------------
\* The recorded position lies on the segment from origin to origin + delta.
OnSegment(c, origin, delta) ==
    LET v == <<c.pos[1] - origin[1] * c.den, c.pos[2] - origin[2] * c.den>>
        along == v[1] * delta[1] + v[2] * delta[2]
        whole == c.den * (delta[1] * delta[1] + delta[2] * delta[2])
    IN /\ v[1] * delta[2] = v[2] * delta[1]
       /\ IF whole > 0 THEN 0 <= along /\ along <= whole
          ELSE whole <= along /\ along <= 0

\* C30: every crossing of step_ray lies on the segment from origin to
\* origin + delta, its coordinate on the crossed axis is the border of the
\* origin tile on the face left, and its dist is the distance from origin
\* to it.
C30_CrossingOnBoundary ==
    last.op = "step_ray" =>
        \A i \in 1..Len(last.ret) :
            /\ OnSegment(last.ret[i], last.origin, last.delta)
            /\ last.ret[i].pos[last.ret[i].axis] = last.ret[i].iface * last.ret[i].den
            /\ last.ret[i].dist_sq_num =
                   (last.ret[i].pos[1] - last.origin[1] * last.ret[i].den)
                       * (last.ret[i].pos[1] - last.origin[1] * last.ret[i].den)
                   + (last.ret[i].pos[2] - last.origin[2] * last.ret[i].den)
                       * (last.ret[i].pos[2] - last.origin[2] * last.ret[i].den)

\* ------------------------------------------------------------------------
\* C31
\* ------------------------------------------------------------------------
\* C31: every call of step_ray_tiles comes to its end: the loop is left
\* and the tile of dst is handed to the callback.
C31_Terminates == (last.op = "walk") ~> (last.op = "walk" /\ last.at = "done")

\* ------------------------------------------------------------------------
\* C38
\* ------------------------------------------------------------------------
EdgeAdjacent(a, b) == Abs(a[1] - b[1]) + Abs(a[2] - b[2]) = 1

\* The tiles a finished walk handed to the callback before the visit of
\* the tile of dst.
EnteredPath(walk) == SubSeq(walk.seen, 1, Len(walk.seen) - 1)

\* C38: the tiles entered by a walk of step_ray_tiles form a path of
\* edge-adjacent tiles that starts next to the tile of src and, when it is
\* not empty, ends in the tile of dst.
C38_ConnectedPath ==
    (last.op = "walk" /\ last.at = "done") =>
        \A path \in {EnteredPath(last)} :
            Len(path) > 0 =>
                /\ EdgeAdjacent(TileLayerConfig_actor_to_tile(last.size, last.src), path[1])
                /\ \A i \in 1..(Len(path) - 1) : EdgeAdjacent(path[i], path[i + 1])
                /\ path[Len(path)] = TileLayerConfig_actor_to_tile(last.size, last.dst)

\* ------------------------------------------------------------------------
\* C32
\* ------------------------------------------------------------------------
ChunkOfBox(aabb) == actor_to_decomposed(Center(aabb)).chunk

\* The places <<chunk, position>> at which an entity stands in the handle
\* sequences of the collider chunks.
Occurrences(e) ==
    {<<c, i>> \in UNION {{c} \X (1..Len(cchunks[c].handles)) : c \in DOMAIN cchunks} :
        cchunks[c].handles[i] = e}

\* The add and the move system have seen the box the entity has now.
Processed(e) == collider[e].state = "alive" /\ e \notin added /\ e \notin changed

\* The entity stands once in the index, with its box, in the chunk the
\* world holds at the chunk coordinate of the centre of the box.
RegisteredAtCentre(e) ==
    /\ tracked[e].present
    /\ Occurrences(e) = {<<tracked[e].chunk, tracked[e].index + 1>>}
    /\ cchunks[tracked[e].chunk].aabbs[tracked[e].index + 1] = collider[e].aabb
    /\ cchunks[tracked[e].chunk].pos = ChunkOfBox(collider[e].aabb)
    /\ MapGet(chunks, ChunkOfBox(collider[e].aabb)) = tracked[e].chunk

\* The colliders sys_move_colliders visits, those whose centre stays in
\* the chunk they are registered in, and the chunks the others leave or
\* join.
Visited == {e \in changed : tracked[e].present}

Staying == {e \in Visited : ChunkOfBox(collider[e].aabb) = cchunks[tracked[e].chunk].pos}

Restructured == {tracked[e].chunk : e \in Visited \ Staying}
                    \cup {tracked'[e].chunk : e \in Visited \ Staying}

\* C32: once the add and the move system have seen the box of a collider,
\* the collider stands exactly once in the index, in the chunk of the
\* centre of its box; and a run of the move system leaves the sequences of
\* every chunk that no collider leaves or joins as they are, except for
\* the boxes of the colliders that stay, overwritten at their index.
C32_RegisteredAtCentre ==
    [][/\ \A e \in Entities : Processed(e)' => RegisteredAtCentre(e)'
       /\ (pc = "move" /\ pc' # "move") =>
             /\ \A e \in Staying : tracked'[e] = tracked[e] \/ tracked[e].chunk \in Restructured
             /\ Visited = Staying => objs' = objs
             /\ \A c \in DOMAIN cchunks : c \notin Restructured =>
                   /\ cchunks'[c].handles = cchunks[c].handles
                   /\ Len(cchunks'[c].aabbs) = Len(cchunks[c].aabbs)
                   /\ \A i \in 1..Len(cchunks[c].aabbs) :
                         cchunks'[c].aabbs[i] =
                             IF cchunks[c].handles[i] \in Staying
                             THEN collider[cchunks[c].handles[i]].aabb
                             ELSE cchunks[c].aabbs[i]]_vars

\* Both colliders are registered in chunk (-1, 0), the second in front of
\* the first, and chunk (0, 0), which only a collider can have made, is
\* left empty: a collider moved over, and the other was then written
\* within the chunk at index 0.
C32_Witness ==
    /\ pc = "remove"
    /\ \A e \in Entities : Processed(e) /\ RegisteredAtCentre(e)
    /\ \E c \in DOMAIN cchunks :
          /\ cchunks[c].present /\ cchunks[c].pos = <<0, 0>> /\ cchunks[c].handles = <<>>
    /\ \E c \in DOMAIN cchunks :
          /\ cchunks[c].pos = <<-1, 0>> /\ cchunks[c].handles = <<2, 1>>

\* ------------------------------------------------------------------------
\* C33
\* ------------------------------------------------------------------------
\* registry.lookup(id).try_get::<TileColliderDescriptor>(), asked directly.
DirectLookup(id) == RegistryTryGet(MaterialRegistry_lookup(registry, id).ret, id)

\* C33: every call of the cache for a registered id returns what the
\* direct lookup yields; the call stores the result at the index of the
\* id, grows the vector just enough to hold that index, and leaves every
\* other entry where it was; and every descriptor the cache holds is the
\* one the direct lookup of its index yields.
C33_CacheAgreesWithLookup ==
    [][/\ \A k \in 1..Len(cache') : cache'[k] # NONE => cache'[k] = DirectLookup(k - 1)'
       /\ (last'.op = "cache_get" /\ last' # last) =>
             /\ last'.ret = DirectLookup(last'.id)
             /\ Len(cache') = Max2(Len(cache), last'.id + 1)
             /\ cache'[last'.id + 1] = last'.ret
             /\ \A k \in 1..Len(cache') :
                   k # last'.id + 1 =>
                       cache'[k] = IF k <= Len(cache) THEN cache[k] ELSE NONE]_vars

\* The cache was asked for id 2 first, then for a lower id: the vector
\* holds both descriptors, and the last call was answered from the cache.
C33_Witness ==
    /\ last.op = "cache_get"
    /\ last.lookups = 0
    /\ last.ret # NONE
    /\ Len(last.before) = 3
    /\ \E k \in 1..2 : cache[k] # NONE /\ cache[3] # NONE /\ cache[k] # cache[3]
    /\ \E k \in 1..2 : cache[k] = NONE

\* ------------------------------------------------------------------------
\* C34
\* ------------------------------------------------------------------------
\* C34: a call of the cache for an id for which an earlier call returned
\* None returns None without a lookup in the registry.
C34_MissMemoized ==
    [][(last.op = "cache_get" /\ last'.op = "cache_get" /\ last'.n = last.n + 1
           /\ last'.id \in last.missed)
          => (last'.ret = NONE /\ last'.lookups = 0)]_vars

\* ------------------------------------------------------------------------
\* C35
\* ------------------------------------------------------------------------
\* The colliders other than the listener that collisions returns for the
\* listener's box.
Returned(l) ==
    {collisions(World, collider[l].aabb).ret[i][1] :
        i \in 1..Len(collisions(World, collider[l].aabb).ret)} \ {l}

EventsOf(sent, l, o, entered) ==
    {i \in 1..Len(sent) : sent[i] = ColliderEvent(l, o, entered)}

\* C35: in a run of the listening system, for every listener and every
\* other entity, one entered event is sent when collisions returns the
\* entity and the listener did not contain it, one exited event when the
\* listener contained it and collisions does not return it, and no event
\* otherwise; an entered event follows no event or an exited one of the
\* pair, an exited event follows an entered one; and the listener then
\* contains what collisions returned.
C35_EnteredExited ==
    [][(pc = "update" /\ pc' = "moved") =>
          /\ \A i \in 1..Len(listen'.sent) : listen'.sent[i].listener \in Listeners
          /\ \A l \in Listeners :
                \A R \in {Returned(l)} :
                   /\ listen'.contains[l] = R
                   /\ \A o \in Entities :
                         /\ Cardinality(EventsOf(listen'.sent, l, o, TRUE))
                              = IF o \in R /\ o \notin listen.contains[l] THEN 1 ELSE 0
                         /\ Cardinality(EventsOf(listen'.sent, l, o, FALSE))
                              = IF o \notin R /\ o \in listen.contains[l] THEN 1 ELSE 0
                         /\ EventsOf(listen'.sent, l, o, TRUE) # {}
                              => listen.kind[<<l, o>>] \in {"none", "exited"}
                         /\ EventsOf(listen'.sent, l, o, FALSE) # {}
                              => listen.kind[<<l, o>>] = "entered"]_vars

\* The last run sent an exited event for a pair and an entered event for
\* the reverse pair had been sent before: a collider moved away from a
\* listener that had seen it enter.
C35_Witness ==
    /\ pc = "moved"
    /\ \E i \in 1..Len(listen.sent) :
          /\ ~listen.sent[i].entered
          /\ listen.kind[<<listen.sent[i].listener, listen.sent[i].other>>] = "exited"
    /\ \E i \in 1..Len(listen.sent) : listen.sent[i].entered

\* ------------------------------------------------------------------------
\* C36
\* ------------------------------------------------------------------------
\* The box move_by resolves an axis for: the box as given for X, the box
\* moved by the X result for Y.
ResolvedFrom(axis) ==
    IF axis = 1 THEN last.aabb ELSE Translated(last.aabb, <<last.ret[1], 0>>)

\* The accepted boxes because of which move_by returned less than desired
\* on the axis: they reach into the swept region and allow exactly the
\* travel returned, which is less than the desired one.
ClampedBy(axis) ==
    {B \in Overlapping(AcceptedBoxes(last.filter), ResolvedFrom(axis), axis, last.by[axis]) :
        /\ Abs(last.ret[axis]) < Abs(last.by[axis])
        /\ Allowed(ResolvedFrom(axis), B, axis, last.by[axis]) = Abs(last.ret[axis])}

\* The blocker lay ahead of the mover on the axis.
Ahead(B, axis) ==
    Gap(ResolvedFrom(axis), B, axis, IF last.by[axis] < 0 THEN -1 ELSE 1) >= 0

RECURSIVE TrueGlobal(_)
TrueGlobal(s) ==
    IF spatials[s].parent = NONE THEN spatials[s].local_transform
    ELSE AffineMul(TrueGlobal(spatials[s].parent), spatials[s].local_transform)

\* The children sequences and the parent links describe the same
\* hierarchy: a node stands at index_in_parent among the children of its
\* parent, and every child listed names the node as its parent.
SpatialLinked ==
    \A s \in DOMAIN spatials :
       /\ spatials[s].parent # NONE =>
             /\ spatials[s].index_in_parent < Len(spatials[spatials[s].parent].children)
             /\ spatials[spatials[s].parent].children[spatials[s].index_in_parent + 1] = s
       /\ \A i \in 1..Len(spatials[s].children) :
             /\ spatials[spatials[s].children[i]].parent = s
             /\ spatials[spatials[s].children[i]].index_in_parent = i - 1

\* C39: every Spatial that holds a cached global transform has a parent,
\* if any, that holds one too, and the cached value is the parent's global
\* transform times its own local transform; the value global_transform
\* returns is the one computed from the local transforms along the parent
\* links; and the children sequences agree with the parent links, so that
\* mark_dirty reaches every cached descendant.
C39_CacheCoherent ==
    /\ SpatialLinked
    /\ \A s \in SpatialCached(spatials) :
          /\ spatials[s].parent # NONE => spatials[s].parent \in SpatialCached(spatials)
          /\ spatials[s].global_transform =
                AffineMul(IF spatials[s].parent = NONE THEN IDENTITY
                          ELSE spatials[spatials[s].parent].global_transform,
                          spatials[s].local_transform)
          /\ spatials[s].global_transform = TrueGlobal(s)
    /\ last.op = "global_transform" =>
          /\ last.ret = TrueGlobal(last.self)
          /\ last.self \in SpatialCached(spatials)

\* A local transform was set on a cached node whose cached child has a
\* child without cache: mark_dirty dropped both caches and stopped at the
\* grandchild.
C39_Witness ==
    /\ last.op = "set_local_transform"
    /\ \E c \in last.dirtied \ {last.self}, g \in DOMAIN spatials :
          /\ spatials[c].parent = last.self
          /\ spatials[g].parent = c
          /\ g \notin last.dirtied
          /\ g \notin SpatialCached(spatials)
    /\ last.self \in last.dirtied

\* ------------------------------------------------------------------------
\* C37
\* ------------------------------------------------------------------------
\* The collisions of a region as a set, from the tiles under the region and
\* from the boxes registered in the chunks collisions covers, whatever
\* their positions in the sequences.
TileBoxesUnder(q) ==
    {tile_to_actor_rect(t) : t \in {u \in TilesOf(q) : tile(World, u).ret # AIR}}

RegisteredNear(q) ==
    UNION {{cchunks[chunks[c]].aabbs[i] : i \in 1..Len(cchunks[chunks[c]].aabbs)} :
              c \in {d \in CoveredChunks(q) \cap DOMAIN chunks : cchunks[chunks[d]].present}}

CollisionSet(q, f) ==
    {B \in TileBoxesUnder(q) : Filter(f, [kind |-> "tile", aabb |-> B]) /\ Intersects(B, q)}
    \cup {B \in RegisteredNear(q) :
             Filter(f, [kind |-> "collider", aabb |-> B]) /\ Intersects(q, B)}

\* The results of the three calls as functions of that set.
LeastOf(S) == CHOOSE t \in S : \A u \in S : t <= u

AxisOfSet(M, axis, d, f) ==
    SignOfBiased(d)
    * LeastOf({Abs(d)} \cup {Max2(acceptable_delta(M, B, axis, d), 0) :
                               B \in CollisionSet(check_aabb_of(M, axis, d), f)})

MoveBySet(M, by, f) ==
    <<AxisOfSet(M, 1, by[1], f),
      AxisOfSet(Translated(M, <<AxisOfSet(M, 1, by[1], f), 0>>), 2, by[2], f)>>

ClipMaskOfSet(M, by, f) ==
    <<CollisionSet(clip_probe(M, 1, by[1]), f) = {},
      CollisionSet(clip_probe(M, 2, by[2]), f) = {}>>

\* C37: what move_by, get_clip_mask and has_colliders_in return is a
\* function of the tiles and of the set of boxes registered in the covered
\* chunks: it is the same for every position the boxes have in the chunk
\* sequences and for every order in which the chunks are visited.
C37_OrderIndependent ==
    /\ (last.op = "move_by" /\ ~last.panicked)
          => last.ret = MoveBySet(last.aabb, last.by, last.filter)
    /\ (last.op = "get_clip_mask" /\ ~last.panicked)
          => last.ret = ClipMaskOfSet(last.aabb, last.by, last.filter)
    /\ (last.op = "has_colliders_in" /\ ~last.panicked)
          => last.ret = (CollisionSet(last.aabb, last.filter) # {})

\* A move shortened by the nearest box of the swept region, which holds a
\* farther one too, the chunks being visited in descending order and a
\* chunk holding its colliders in the reverse of the order of their
\* creation.
C37_Witness ==
    /\ last.op = "move_by" /\ ~last.panicked
    /\ hasher = "descending"
    /\ \E c \in DOMAIN chunks :
          cchunks[chunks[c]].present /\ cchunks[chunks[c]].handles = <<2, 1>>
    /\ Abs(last.ret[1]) < Abs(last.by[1])
    /\ \E B \in CollisionSet(check_aabb_of(last.aabb, 1, last.by[1]), last.filter) :
          Max2(acceptable_delta(last.aabb, B, 1, last.by[1]), 0) > Abs(last.ret[1])

====
